---- MODULE Spec2Model ----
(***************************************************************************)
(* Model of the experiment harness of mbeckem/msc (scripts/*.py): the      *)
(* guarded filesystem helpers of common.py, the two build_tree variants    *)
(* (commands.py, common.py), the rebuild-skip logic of                     *)
(* build_tree_variants.py and the start-up file-descriptor limits.         *)
(*                                                                         *)
(* Paths are sequences of components below the working directory.  The     *)
(* filesystem maps every node of a fixed universe to a record              *)
(*   [k, ents, fields, by]                                                 *)
(* k      : "absent" | "file" | "dir" | "link"                             *)
(* ents   : for a tree file, how often each entry id is stored in it       *)
(* fields : for a statistics artifact, the keys of its JSON object         *)
(* by     : for a statistics artifact, the tool invocation that wrote it   *)
(***************************************************************************)
EXTENDS Integers, Sequences, FiniteSets, TLC

\* ------------------------------------------------------------------ bounds

\* Number of distinct entries of the entry file (ids 0 .. MaxEntries-1).
MaxEntries == 2

\* How often one entry may be stored in a tree before the model stops inserting.
MaxCount == 2

\* Number of external tool invocations after which a run of the build_tree
\* calls starts no further call.
MaxInv == 2

\* The same for a run of a whole script (start-up, native builds, loader and
\* query tool calls).
MaxTools == 5

\* ------------------------------------------------------------------- paths

Cwd == << >>
OUTPUT_PATH == <<"output">>
TMP_PATH == <<"tmp">>
DATA_PATH == <<"data">>

TreePath == <<"output", "tree">>
TreeBlocks == <<"output", "tree", "tree.blocks">>
TreeLink == <<"output", "tree", "ln">>
StatsPath == <<"tmp", "stats.json">>
TpiePath == <<"tmp", "tpie">>
EntriesPath == <<"data", "geolife.entries">>
DataLink == <<"data", "ln">>
DataTree == <<"data", "tree">>
DataTreeBlocks == <<"data", "tree", "tree.blocks">>
QueryStatsPath == <<"tmp", "query-stats.json">>

Nodes ==
    { Cwd, OUTPUT_PATH, TMP_PATH, DATA_PATH, TreePath, TreeBlocks, TreeLink,
      StatsPath, TpiePath, EntriesPath, DataLink, DataTree, DataTreeBlocks,
      QueryStatsPath }

\* The only places that hold a symbolic link in the modelled filesystems, and
\* where each points: one link inside the output root that leads out of it,
\* one outside the roots that leads into the output root.
LinkTarget(n) == IF n = TreeLink THEN DATA_PATH ELSE TreePath

EntryIds == 0 .. (MaxEntries - 1)

NoEnts == [e \in EntryIds |-> 0]

Absent == [k |-> "absent", ents |-> NoEnts, fields |-> {}, by |-> 0]
Dir == [k |-> "dir", ents |-> NoEnts, fields |-> {}, by |-> 0]
Link == [k |-> "link", ents |-> NoEnts, fields |-> {}, by |-> 0]
File(ents, fields, by) == [k |-> "file", ents |-> ents, fields |-> fields, by |-> by]

IsPrefix(a, b) == Len(a) <= Len(b) /\ SubSeq(b, 1, Len(a)) = a

\* pathlib's Path.parents: the strict ancestors of a path.
Parents(p) == { SubSeq(p, 1, i) : i \in 0 .. (Len(p) - 1) }

Parent(p) == SubSeq(p, 1, Len(p) - 1)

ChildrenOf == [n \in Nodes |-> { m \in Nodes : Len(m) = Len(n) + 1 /\ IsPrefix(n, m) }]

Children(n) == ChildrenOf[n]

\* A node and everything below it (by real location, links not followed).
SubtreeOf == [n \in Nodes |-> { m \in Nodes : IsPrefix(n, m) }]

Subtree(n) == SubtreeOf[n]

\* pathlib's Path.resolve(): walk the components, replacing every symbolic
\* link met on the way by its target; components that do not exist are kept.
RECURSIVE ResolveFrom(_, _, _, _)
ResolveFrom(f, p, i, cur) ==
    IF i > Len(p) THEN cur
    ELSE LET cand == Append(cur, p[i])
         IN  ResolveFrom(f, p, i + 1,
                 IF cand \in Nodes /\ f[cand].k = "link" THEN LinkTarget(cand) ELSE cand)

Resolve(f, p) == ResolveFrom(f, p, 1, Cwd)

\* Path.exists(), is_dir(), is_file(): all follow symbolic links; a dangling
\* link does not exist.
Exists(f, p) == LET r == Resolve(f, p) IN r \in Nodes /\ f[r].k \in {"file", "dir"}
IsDir(f, p) == LET r == Resolve(f, p) IN r \in Nodes /\ f[r].k = "dir"
IsFile(f, p) == LET r == Resolve(f, p) IN r \in Nodes /\ f[r].k = "file"

\* The directory entry itself is there (a link counts, dangling or not).
LExists(f, p) ==
    LET r == Append(Resolve(f, Parent(p)), p[Len(p)])
    IN  IF p = Cwd THEN TRUE ELSE r \in Nodes /\ f[r].k # "absent"

\* ------------------------------------------------------------ common.py

\* Mutant of RmTree: descends into the directories that links point to.
RmTreeFollowingLinks(f, path) ==
    [n \in Nodes |->
        IF \/ n \in Subtree(path)
           \/ \E l \in Subtree(path) : f[l].k = "link" /\ n \in Subtree(LinkTarget(l)) /\ n # LinkTarget(l)
        THEN Absent ELSE f[n]]

\* shutil.rmtree(path): removes the directory and all below it; symbolic
\* links inside are unlinked, never followed.
RmTree(f, path) == [n \in Nodes |-> IF n \in Subtree(path) THEN Absent ELSE f[n]]

\* Path.unlink()
Unlink(f, path) == [f EXCEPT ![path] = Absent]

\* Mutant of Remove: the check against the roots is left out.
RemoveUnguarded(f, p) ==
    IF ~Exists(f, p) THEN [raised |-> FALSE, fs |-> f, del |-> {}]
    ELSE LET path == Resolve(f, p)
         IN  IF IsDir(f, path)
             THEN [raised |-> FALSE, fs |-> RmTree(f, path),
                   del |-> { n \in Subtree(path) : f[n].k # "absent" }]
             ELSE [raised |-> FALSE, fs |-> Unlink(f, path), del |-> {path}]

\* Mutant of Remove: the roots are checked before the existence of the path.
RemoveCheckFirst(f, p) ==
    LET path == Resolve(f, p)
    IN  IF ~(TMP_PATH \in Parents(path)) /\ ~(OUTPUT_PATH \in Parents(path))
        THEN [raised |-> TRUE, fs |-> f, del |-> {}]
        ELSE IF ~Exists(f, p) THEN [raised |-> FALSE, fs |-> f, del |-> {}]
        ELSE IF IsDir(f, path)
             THEN [raised |-> FALSE, fs |-> RmTree(f, path),
                   del |-> { n \in Subtree(path) : f[n].k # "absent" }]
             ELSE [raised |-> FALSE, fs |-> Unlink(f, path), del |-> {path}]

\* common.remove(path): the result is [raised, fs, del], del the nodes deleted.
Remove(f, p) ==
    IF ~Exists(f, p) THEN [raised |-> FALSE, fs |-> f, del |-> {}]
    ELSE LET path == Resolve(f, p)
             output == Resolve(f, OUTPUT_PATH)
             tmp == Resolve(f, TMP_PATH)
         IN  IF ~(tmp \in Parents(path)) /\ ~(output \in Parents(path))
             THEN [raised |-> TRUE, fs |-> f, del |-> {}]
             ELSE IF IsDir(f, path)
                  THEN [raised |-> FALSE, fs |-> RmTree(f, path),
                        del |-> { n \in Subtree(path) : f[n].k # "absent" }]
                  ELSE [raised |-> FALSE, fs |-> Unlink(f, path), del |-> {path}]

\* Path.mkdir(parents=True, exist_ok=True): the result is [raised, fs].
RECURSIVE Mkdir(_, _)
Mkdir(f, p) ==
    IF LExists(f, p)
    THEN \* os.mkdir fails with EEXIST: fine only if it is a directory
         [raised |-> ~IsDir(f, p), fs |-> f]
    ELSE IF IsDir(f, Parent(p))
         THEN LET real == Append(Resolve(f, Parent(p)), p[Len(p)])
              IN  IF real \in Nodes
                  THEN [raised |-> FALSE, fs |-> [f EXCEPT ![real] = Dir]]
                  ELSE [raised |-> TRUE, fs |-> f]
         ELSE IF Exists(f, Parent(p))
              THEN \* the parent is a file: ENOTDIR
                   [raised |-> TRUE, fs |-> f]
              ELSE \* ENOENT: create the parents, then the directory
                   LET up == Mkdir(f, Parent(p))
                   IN  IF up.raised THEN [raised |-> TRUE, fs |-> up.fs]
                       ELSE LET real == Append(Resolve(up.fs, Parent(p)), p[Len(p)])
                            IN  IF real \in Nodes
                                THEN [raised |-> FALSE, fs |-> [up.fs EXCEPT ![real] = Dir]]
                                ELSE [raised |-> TRUE, fs |-> up.fs]

\* common.make_dir(p) with check=False
MakeDir(f, p) == Mkdir(f, p)

\* Mutant of ResetDir: the directory is made, its old content not removed.
ResetDirKeeping(f, p) ==
    LET m == MakeDir(f, p) IN [raised |-> m.raised, fs |-> m.fs, del |-> {}]

\* common.reset_dir(p): remove(p), then make_dir(p).
ResetDir(f, p) ==
    LET r == Remove(f, p)
    IN  IF r.raised THEN r
        ELSE LET m == MakeDir(r.fs, p)
             IN  [raised |-> m.raised, fs |-> m.fs, del |-> r.del]

RECURSIVE SumEnts(_, _)
SumEnts(ents, S) ==
    IF S = {} THEN 0
    ELSE LET e == CHOOSE x \in S : TRUE IN ents[e] + SumEnts(ents, S \ {e})

\* st_size of a file: grows with what is stored in it.
StSize(rec) == SumEnts(rec.ents, EntryIds) + Cardinality(rec.fields)

\* common.file_size(path): -1 stands for the RuntimeError.
RECURSIVE FileSize(_, _)
RECURSIVE SumFileSize(_, _, _)
SumFileSize(f, p, S) ==
    IF S = {} THEN 0
    ELSE LET c == CHOOSE x \in S : TRUE
             one == FileSize(f, Append(p, c[Len(c)]))
             rest == SumFileSize(f, p, S \ {c})
         IN  IF one < 0 \/ rest < 0 THEN -1 ELSE one + rest

FileSize(f, p) ==
    IF ~Exists(f, p) THEN -1
    ELSE IF IsFile(f, p) THEN StSize(f[Resolve(f, p)])
    ELSE IF IsDir(f, p)
         THEN SumFileSize(f, p, { c \in Children(Resolve(f, p)) : f[c].k # "absent" })
         ELSE 0


\* ---------------------------------------------------- the loader (external)

None == -1

BuildStatsFields ==
    {"read_io", "write_io", "total_io", "duration", "leaf_fanout", "internal_fanout"}

\* The JSON objects the loader may leave in its statistics artifact: the
\* documented fields, more than those, fewer than those.
StatsArtifacts ==
    { BuildStatsFields,
      BuildStatsFields \cup {"tree_height"},
      (BuildStatsFields \ {"leaf_fanout"}) \cup {"tree_height"} }

\* The entries selected by --offset and --limit (None: from the start, to EOF).
BatchOf(offset, limit) ==
    { e \in EntryIds :
        /\ e >= (IF offset = None THEN 0 ELSE offset)
        /\ (limit = None \/ e < (IF offset = None THEN 0 ELSE offset) + limit) }

Insert(ents, batch) == [e \in EntryIds |-> ents[e] + (IF e \in batch THEN 1 ELSE 0)]

BlocksOf(tree) == Append(tree, "tree.blocks")

\* What a tree location holds: the entry counts of its tree.blocks file.
TreeEnts(f, p) ==
    LET b == BlocksOf(Resolve(f, p))
    IN  IF b \in Nodes /\ f[b].k = "file" THEN f[b].ents ELSE NoEnts

\* The loader can run to a successful end at this location: it is absent (and
\* can be created) or it is a tree directory.
LoaderCanWrite(f, p) ==
    LET r == Resolve(f, p)
    IN  /\ BlocksOf(r) \in Nodes
        /\ IsDir(f, Parent(r))
        /\ \/ IsDir(f, p)
           \/ ~LExists(f, p)
        /\ f[BlocksOf(r)].k \in {"absent", "file"}

\* The loader's effect on the filesystem.  A successful run (status 0) opens
\* or creates the tree at --tree, inserts the selected entries into it and
\* writes the statistics artifact `stats` (a set of keys, or {"-"} for a run
\* that writes none) to --stats.  A failed run leaves the tree untouched or,
\* with `partial`, leaves a tree directory it had begun to write.
LoaderEffect(f, tree, statsPath, offset, limit, status, stats, partial, id) ==
    LET r == Resolve(f, tree)
        b == BlocksOf(r)
        withTree == [f EXCEPT ![r] = Dir,
                              ![b] = File(Insert(TreeEnts(f, tree), BatchOf(offset, limit)), {}, 0)]
        begun == [f EXCEPT ![r] = Dir]
    IN  IF status = 0
        THEN IF stats = {"-"} THEN withTree
             ELSE [withTree EXCEPT ![Resolve(f, statsPath)] = File(NoEnts, stats, id)]
        ELSE IF partial /\ LoaderCanWrite(f, tree) THEN begun ELSE f

\* ------------------------------------------------------- commands.py, common.py

\* Mutant of CommandsBuildTreeSetup: the tree is never removed.
CommandsBuildTreeSetupKeeping(f, tree_path, keep_existing) ==
    LET r2 == Remove(f, StatsPath)
    IN  IF r2.raised THEN r2
        ELSE LET r3 == MakeDir(r2.fs, TpiePath)
             IN  [raised |-> r3.raised, fs |-> r3.fs, del |-> r2.del]

\* commands.build_tree up to the loader invocation: [raised, fs, del].
CommandsBuildTreeSetup(f, tree_path, keep_existing) ==
    LET r1 == IF ~keep_existing THEN Remove(f, tree_path)
              ELSE [raised |-> FALSE, fs |-> f, del |-> {}]
    IN  IF r1.raised THEN r1
        ELSE LET r2 == Remove(r1.fs, StatsPath)
             IN  IF r2.raised THEN [r2 EXCEPT !.del = r1.del]
                 ELSE LET r3 == MakeDir(r2.fs, TpiePath)
                      IN  [raised |-> r3.raised, fs |-> r3.fs, del |-> r1.del \cup r2.del]

\* Mutant of CommonBuildTreeSetup: keep_existing is not looked at.
CommonBuildTreeSetupRemoving(f, tree_path, keep_existing) ==
    LET r1 == Remove(f, tree_path)
    IN  IF r1.raised THEN r1
        ELSE LET r2 == Remove(r1.fs, StatsPath)
             IN  IF r2.raised THEN [r2 EXCEPT !.del = r1.del]
                 ELSE LET r3 == MakeDir(r2.fs, TpiePath)
                      IN  [raised |-> r3.raised, fs |-> r3.fs, del |-> r1.del \cup r2.del]

\* A setup that leaves the statistics file of an earlier call in place.
CommonBuildTreeSetupKeepingStats(f, tree_path, keep_existing) ==
    LET r1 == IF ~keep_existing THEN Remove(f, tree_path)
              ELSE [raised |-> FALSE, fs |-> f, del |-> {}]
    IN  IF r1.raised THEN r1
        ELSE LET r3 == MakeDir(r1.fs, TpiePath)
             IN  [raised |-> r3.raised, fs |-> r3.fs, del |-> r1.del]

\* common.build_tree up to the loader invocation: [raised, fs, del].
CommonBuildTreeSetup(f, tree_path, keep_existing) ==
    LET r1 == IF ~keep_existing THEN Remove(f, tree_path)
              ELSE [raised |-> FALSE, fs |-> f, del |-> {}]
    IN  IF r1.raised THEN r1
        ELSE LET r2 == Remove(r1.fs, StatsPath)
             IN  IF r2.raised THEN [r2 EXCEPT !.del = r1.del]
                 ELSE LET r3 == MakeDir(r2.fs, TpiePath)
                      IN  [raised |-> r3.raised, fs |-> r3.fs, del |-> r1.del \cup r2.del]

\* Mutant of CheckCall: the exit status is not looked at (subprocess.call).
CheckCallIgnoringStatus(status) == FALSE

\* subprocess.check_call raises CalledProcessError on a non-zero exit status.
CheckCall(status) == status # 0

\* Mutant of CommandsBuildTreeFinish: the artifact is returned as it is.
CommandsBuildTreeFinishUnfiltered(f, status) ==
    IF CheckCall(status) THEN [raised |-> TRUE, fields |-> {}, by |-> 0]
    ELSE IF ~IsFile(f, StatsPath) THEN [raised |-> TRUE, fields |-> {}, by |-> 0]
    ELSE LET stats == f[Resolve(f, StatsPath)]
         IN  [raised |-> FALSE, fields |-> stats.fields, by |-> stats.by]

\* build_tree after the loader has exited with `status`: check_call raises on
\* a non-zero status, open() raises when the artifact is missing, and the
\* result is [raised, fields, by].
CommandsBuildTreeFinish(f, status) ==
    IF CheckCall(status) THEN [raised |-> TRUE, fields |-> {}, by |-> 0]
    ELSE IF ~IsFile(f, StatsPath) THEN [raised |-> TRUE, fields |-> {}, by |-> 0]
    ELSE LET stats == f[Resolve(f, StatsPath)]
         IN  IF \E key \in BuildStatsFields : key \notin stats.fields
             THEN [raised |-> TRUE, fields |-> {}, by |-> 0]
             ELSE [raised |-> FALSE,
                   fields |-> { key \in BuildStatsFields : key \in stats.fields },
                   by |-> stats.by]

CommonBuildTreeFinish(f, status) ==
    IF CheckCall(status) THEN [raised |-> TRUE, fields |-> {}, by |-> 0]
    ELSE IF ~IsFile(f, StatsPath) THEN [raised |-> TRUE, fields |-> {}, by |-> 0]
    ELSE LET stats == f[Resolve(f, StatsPath)]
         IN  [raised |-> FALSE, fields |-> stats.fields, by |-> stats.by]

\* ------------------------------------------------------------ build_trees.py

ResultFields == {"total_io", "duration"}

\* run() up to the loader invocation: the tree is removed, the statistics
\* file at stats_path is left as it is.
BuildTreesRunSetup(f, tree_path) ==
    LET r1 == Remove(f, tree_path)
    IN  IF r1.raised THEN r1
        ELSE LET r3 == MakeDir(r1.fs, TpiePath)
             IN  [raised |-> r3.raised, fs |-> r3.fs, del |-> r1.del]

\* run() after the loader has exited: Result(total_io, duration).
BuildTreesRunFinish(f, stats_path, status) ==
    IF CheckCall(status) THEN [raised |-> TRUE, fields |-> {}, by |-> 0]
    ELSE IF ~IsFile(f, stats_path) THEN [raised |-> TRUE, fields |-> {}, by |-> 0]
    ELSE LET stats == f[Resolve(f, stats_path)]
         IN  IF \E key \in ResultFields : key \notin stats.fields
             THEN [raised |-> TRUE, fields |-> {}, by |-> 0]
             ELSE [raised |-> FALSE, fields |-> ResultFields, by |-> stats.by]

\* -------------------------------------------------------------- eval_query.py

\* The JSON object the query tool leaves in its statistics artifact.
QueryStatsFields == {"duration", "total_io", "block_io"}

\* The query tool's effect on the filesystem: a successful run writes its
\* statistics artifact (`stats`, or {"-"} for none) to --stats.
QueryEffect(f, statsPath, status, stats, id) ==
    IF status = 0 /\ stats # {"-"}
    THEN [f EXCEPT ![Resolve(f, statsPath)] = File(NoEnts, stats, id)]
    ELSE f

\* run_query after the query tool has exited: the parsed artifact.
RunQueryFinish(f, status) ==
    IF CheckCall(status) THEN [raised |-> TRUE, fields |-> {}, by |-> 0]
    ELSE IF ~IsFile(f, QueryStatsPath) THEN [raised |-> TRUE, fields |-> {}, by |-> 0]
    ELSE LET stats == f[Resolve(f, QueryStatsPath)]
         IN  [raised |-> FALSE, fields |-> stats.fields, by |-> stats.by]

\* ------------------------------------------------------------------ compile

\* Keyword arguments of compile(): `given` holds the names that were passed,
\* the other fields their values (the default where a name was not passed).
NoFlags ==
    [given |-> {}, beta |-> "normal", leaf_fanout |-> 0, internal_fanout |-> 0,
     bloom_filters |-> FALSE, debug_stats |-> FALSE]

\* current_compile_flags = None
NoneFlags == [NoFlags EXCEPT !.given = {"None"}]

BetaFlags(mode) == [NoFlags EXCEPT !.given = {"beta"}, !.beta = mode]

BloomFlags == [NoFlags EXCEPT !.given = {"bloom_filters"}, !.bloom_filters = TRUE]

FanoutFlags(fanout) ==
    [NoFlags EXCEPT !.given = {"leaf_fanout", "internal_fanout"},
                    !.leaf_fanout = fanout, !.internal_fanout = fanout]

DebugStatsFlags == [NoFlags EXCEPT !.given = {"debug_stats"}, !.debug_stats = TRUE]

\* The compile flags build_tree_variants.py builds its trees with.
VariantFlags == { NoFlags, BetaFlags("increasing"), BloomFlags, FanoutFlags(32) }

bool_str(cond) == IF cond THEN "1" ELSE "0"

DefineKeys ==
    {"CMAKE_BUILD_TYPE", "USE_BLOOM", "USE_NAIVE_NODE_BUILDING", "BLOCK_SIZE", "BETA",
     "LAMBDA", "LEAF_FANOUT", "INTERNAL_FANOUT", "CHEAP_QUICKLOAD", "BUILD_INSPECTOR",
     "BUILD_OSM", "DEBUG_STATS"}

\* The -D defines of common.compile(**flags).
CommonCompileDefines(flags) ==
    [d \in DefineKeys |->
        CASE d = "CMAKE_BUILD_TYPE" -> "Release"
          [] d = "USE_BLOOM" -> bool_str(flags.bloom_filters)
          [] d = "USE_NAIVE_NODE_BUILDING" -> bool_str(FALSE)
          [] d = "BLOCK_SIZE" -> ToString(4096)
          [] d = "BETA" -> flags.beta
          [] d = "LAMBDA" -> ToString(40)
          [] d = "LEAF_FANOUT" -> ToString(flags.leaf_fanout)
          [] d = "INTERNAL_FANOUT" -> ToString(flags.internal_fanout)
          [] d = "CHEAP_QUICKLOAD" -> bool_str(FALSE)
          [] d = "BUILD_INSPECTOR" -> "1"
          [] d = "BUILD_OSM" -> "1"
          [] d = "DEBUG_STATS" -> bool_str(flags.debug_stats)]

\* The -D defines of compile.compile(**flags).
CompileDefines(flags) ==
    [d \in DefineKeys |->
        CASE d = "CMAKE_BUILD_TYPE" -> "Release"
          [] d = "USE_BLOOM" -> bool_str(flags.bloom_filters)
          [] d = "USE_NAIVE_NODE_BUILDING" -> bool_str(FALSE)
          [] d = "BLOCK_SIZE" -> ToString(4096)
          [] d = "BETA" -> flags.beta
          [] d = "LAMBDA" -> ToString(40)
          [] d = "LEAF_FANOUT" -> ToString(flags.leaf_fanout)
          [] d = "INTERNAL_FANOUT" -> ToString(flags.internal_fanout)
          [] d = "CHEAP_QUICKLOAD" -> bool_str(FALSE)
          [] d = "BUILD_INSPECTOR" -> bool_str(FALSE)
          [] d = "BUILD_OSM" -> bool_str(FALSE)
          [] d = "DEBUG_STATS" -> bool_str(flags.debug_stats)]

\* No native build has been made yet.
Unbuilt == [d \in DefineKeys |-> "?"]

\* Mutant of NeedsCompile: only the first call compiles.
NeedsCompileOnlyFirst(current, compile_flags) == current = NoneFlags

\* A caller that takes the default configuration to be in place.
NeedsCompileUnlessDefault(current, compile_flags) == compile_flags # NoFlags

\* build_tree_variants.py: "Rebuild if the flags differ."
NeedsCompile(current, compile_flags) ==
    current = NoneFlags \/ current # compile_flags


\* ----------------------------------------------------------------- queries

RECURSIVE Join(_, _)
\* sep.join(strs)
Join(sep, strs) ==
    IF strs = << >> THEN ""
    ELSE IF Len(strs) = 1 THEN strs[1]
    ELSE strs[1] \o sep \o Join(sep, Tail(strs))

\* str() of a path below the working directory.
PathStr(p) == Join("/", p)

\* A name that is the first component.
PathFirst(p) == p[1]
\* Path.name: the last component.
PathName(p) == p[Len(p)]

\* The tools of the build directory.
QUERY == <<"build", "query">>
STATS == <<"build", "stats">>
DROP_CACHE == <<"scripts", "drop_cache">>

\* BoundingBox(min, max)
BoundingBox(min, max) == [min |-> min, max |-> max]

\* A with_time that keeps the receiver's time interval.
WithTimeKeeping(self, min_t, max_t) == self
\* BoundingBox.with_time
WithTime(self, min_t, max_t) ==
    BoundingBox(<<self.min[1], self.min[2], min_t>>,
                <<self.max[1], self.max[2], max_t>>)

\* SimpleQuery(mbb, labels)
SimpleQuery(mbb, labels) == [mbb |-> mbb, labels |-> labels]

\* Query(name, *queries): queries is the sequence of the parts.
Query(name, queries) == [name |-> name, queries |-> queries]

\* A region string with the minimum corner first, then the maximum corner.
FormatMbbCorners(mbb) ==
    Join(", ", <<ToString(mbb.min[1]), ToString(mbb.min[2]), ToString(mbb.min[3]),
                 ToString(mbb.max[1]), ToString(mbb.max[2]), ToString(mbb.max[3])>>)
\* run_query: "{}, {}, {}, {}, {}, {}".format(min[0], max[0], min[1], ...)
FormatMbb(mbb) ==
    Join(", ", <<ToString(mbb.min[1]), ToString(mbb.max[1]),
                 ToString(mbb.min[2]), ToString(mbb.max[2]),
                 ToString(mbb.min[3]), ToString(mbb.max[3])>>)

\* run_query: ",".join(map(str, sq.labels))
FormatLabels(labels) == Join(",", [i \in 1..Len(labels) |-> ToString(labels[i])])

RECURSIVE PartArgsReversed(_)
RECURSIVE PartArgs(_)
\* The parts' arguments, the last part first.
PartArgsReversed(queries) ==
    IF queries = << >> THEN << >>
    ELSE PartArgsReversed(Tail(queries))
         \o <<"-r", FormatMbb(Head(queries).mbb),
              "-l", FormatLabels(Head(queries).labels)>>
\* run_query: the loop over query.queries, extending args by one
\* (-r, -l) pair per part.
PartArgs(queries) ==
    IF queries = << >> THEN << >>
    ELSE <<"-r", FormatMbb(Head(queries).mbb),
           "-l", FormatLabels(Head(queries).labels)>>
         \o PartArgs(Tail(queries))

\* run_query: the argument list of the query tool (results is None).
QueryArgs(tree, stats_path, query) ==
    <<PathStr(QUERY), "--tree", PathStr(tree), "--stats", PathStr(stats_path)>>
    \o PartArgs(query.queries)

\* The names of a category without the position of the query.
CategoryNamesNoIndex(prefix, category, n) ==
    [i \in 1..n |-> prefix \o "-" \o category \o "-"]
\* "<PREFIX>-<CATEGORY>-{}".format(i) for i in enumerate(...): the names of
\* a category with n queries.
CategoryNames(prefix, category, n) ==
    [i \in 1..n |-> prefix \o "-" \o category \o "-" \o ToString(i - 1)]

\* get_*_queries: the query set built from the three lists; large_queries and
\* small_queries hold one part per query, sequenced_queries a list of parts.
GetQueries(prefix, large_queries, small_queries, sequenced_queries) ==
    [large |-> [i \in 1..Len(large_queries) |->
                   Query(CategoryNames(prefix, "LARGE", Len(large_queries))[i],
                         <<large_queries[i]>>)],
     small |-> [i \in 1..Len(small_queries) |->
                   Query(CategoryNames(prefix, "SMALL", Len(small_queries))[i],
                         <<small_queries[i]>>)],
     sequenced |-> [i \in 1..Len(sequenced_queries) |->
                   Query(CategoryNames(prefix, "SEQUENCED", Len(sequenced_queries))[i],
                         sequenced_queries[i])]]

\* The order in which a query set's categories are visited (insertion order
\* of the dictionary).
SetNames == <<"large", "small", "sequenced">>

\* ------------------------------------------------------ eval_tree_building.py

\* steps(max) is Steps(10, max): step = int(max / 10), then step * i for i in
\* range(1, 11). The loops here are cut down to fewer steps.
Steps(n, max) == [i \in 1..n |-> (max \div n) * i]

\* A bulk loop that keeps the earlier tree.
LoopCallKeeping(sc, loop, size, last_size) ==
    [name |-> IF sc = "eval_tree_building" THEN "commands.build_tree"
              ELSE "common.build_tree",
     keep |-> TRUE,
     offset |-> IF loop = "bulk" THEN None ELSE last_size,
     limit |-> IF loop = "bulk" THEN size ELSE size - last_size]
\* A one-by-one loop whose batches all start at the first entry.
LoopCallFromZero(sc, loop, size, last_size) ==
    [name |-> IF sc = "eval_tree_building" THEN "commands.build_tree"
              ELSE "common.build_tree",
     keep |-> IF loop = "bulk" THEN FALSE ELSE TRUE,
     offset |-> IF loop = "bulk" THEN None ELSE 0,
     limit |-> IF loop = "bulk" THEN size ELSE size - last_size]
\* The call of build_tree in the loops of eval_tree_building.py (commands)
\* and eval_tree_building_beta0.9.py (common), for the step that ends at
\* size: the bulk loop builds the first size entries anew; the one-by-one
\* loop inserts [last_size, size) with keep_existing=True, or, in the beta
\* script, keep_existing=(last_size > 0) after last_size = size.
LoopCall(sc, loop, size, last_size) ==
    [name |-> IF sc = "eval_tree_building" THEN "commands.build_tree"
              ELSE "common.build_tree",
     keep |-> IF loop = "bulk" THEN FALSE
              ELSE IF sc = "eval_tree_building" THEN TRUE
              ELSE size > 0,
     offset |-> IF loop = "bulk" THEN None ELSE last_size,
     limit |-> IF loop = "bulk" THEN size ELSE size - last_size]

\* build_tree has returned statistics whose I/O is total_io: the bulk loop
\* adds a row with them, the one-by-one loop adds them to its sums and adds
\* a row with the sums; then the loop goes on.
TableRow(su, total_io) ==
    [su EXCEPT !.step = @ + 1,
               !.total_io = IF su.loop = "bulk" THEN @ ELSE @ + total_io,
               !.rows = Append(@, <<Steps(MaxEntries, MaxEntries)[su.step],
                                    IF su.loop = "bulk" THEN total_io
                                    ELSE su.total_io + total_io>>),
               !.returned = Append(@, total_io)]

\* ------------------------------------------------------------ measurements

RECURSIVE Sum(_)
\* sum(values)
Sum(values) == IF values = << >> THEN 0 ELSE Head(values) + Sum(Tail(values))

RECURSIVE Gcd(_, _)
\* The greatest common divisor of two naturals, not both zero.
Gcd(a, b) == IF b = 0 THEN a ELSE Gcd(b, a % b)

\* a / b of two naturals, b > 0: the quotient as a fraction in lowest terms.
TrueDiv(a, b) == [num |-> a \div Gcd(a, b), den |-> b \div Gcd(a, b)]

\* An average that does not divide.
AverageNotDividing(values) == TrueDiv(Sum(values), 1)
\* get_stats: sum(query_values.values()) / max(len(query_values), 1)
Average(values) ==
    TrueDiv(Sum(values), IF Len(values) >= 1 THEN Len(values) ELSE 1)

\* A map_keys whose function gives every query the name of the first.
MapKeysToFirst(keys, values) ==
    IF keys = << >> THEN << >>
    ELSE (keys[1].name :> values[Len(keys)])

RECURSIVE MapKeys(_, _)
\* map_keys(d, lambda q: q.name) for d given by its keys and values in
\* insertion order: a later key replaces an equal earlier one.
MapKeys(keys, values) ==
    IF keys = << >> THEN << >>
    ELSE (keys[Len(keys)].name :> values[Len(keys)])
         @@ MapKeys(SubSeq(keys, 1, Len(keys) - 1), SubSeq(values, 1, Len(keys) - 1))

\* measure_set.get_stats(key): query_stats[i] are the statistics of queries[i].
GetStats(queries, query_stats, key) ==
    LET query_values == [i \in 1..Len(query_stats) |-> query_stats[i][key]]
    IN  [values |-> MapKeys(queries, query_values), avg |-> Average(query_values)]

\* measure_set, after its queries have run.
MeasureSet(queries, query_stats) ==
    [duration |-> GetStats(queries, query_stats, "duration"),
     total_io |-> GetStats(queries, query_stats, "total_io")]

RECURSIVE SkipEmpty(_, _, _)
\* measure_queries from category cat on, up to the next category that has a
\* query to run: a category without queries is measured at once.
SkipEmpty(query_set, cat, measured) ==
    IF cat > Len(SetNames) THEN [cat |-> cat, measured |-> measured]
    ELSE IF query_set[SetNames[cat]] # << >> THEN [cat |-> cat, measured |-> measured]
    ELSE SkipEmpty(query_set, cat + 1,
                   (SetNames[cat] :> MeasureSet(<< >>, << >>)) @@ measured)

\* ------------------------------------------------------------------- state

\* __main__ before its first statement: step is the statement to run next;
\* cat and qi are the positions of measure_queries in the query set and in the
\* category; query_stats holds the statistics of the category's queries run
\* so far, measured the finished categories of the tree, result and stats
\* the entries of the trees handled so far; runs is the history of the calls
\* of run_query as (tree name, category, query name), returned the history of
\* their results as (tree name, category, query name, statistics). loop is
\* the loop of eval_tree_building.py that runs, with its last_size and
\* total_io, the rows of its table and the history of its batches as
\* (offset, limit, statistics); written are the result files written,
\* completed the trees for which a loader started by build_if_missing has
\* exited successfully.
NoSuite ==
    [step |-> 1, cat |-> 1, qi |-> 1, query_stats |-> << >>, measured |-> << >>,
     result |-> << >>, stats |-> << >>, runs |-> << >>, returned |-> << >>,
     loop |-> "none", last_size |-> 0, total_io |-> 0, rows |-> << >>, batches |-> << >>,
     written |-> {}, completed |-> {}]

\* No function has been applied.
NoPure == [fn |-> "none", arg |-> << >>, out |-> << >>]

VARIABLES
    fs,         \* the filesystem: [Nodes -> record]
    run,        \* "running", or "halted" once an exception has ended the run
    op,         \* the operation in progress or last completed
    inv,        \* history: the number of external tool invocations so far
    failed,     \* history: which invocation exited non-zero (0: none)
    soft,       \* RLIMIT_NOFILE, soft limit
    hard,       \* RLIMIT_NOFILE, hard limit
    script,     \* the script that is being run
    pc,         \* its position: the start-up steps, then "main"
    current_compile_flags,  \* build_tree_variants.py: flags of the last compile
    binary,     \* the defines the native tools were last built with
    applied,    \* history: the configuration that was applied last
    suite,      \* __main__: the next statement, the loops' positions, the results
    pure        \* the last application of a function without side effects

vars == <<fs, run, op, inv, failed, soft, hard, script, pc,
          current_compile_flags, binary, applied, suite, pure>>

\* The variables a call of a helper or of build_tree leaves alone.
process == <<soft, hard, script, pc, current_compile_flags, binary, applied, suite, pure>>

\* What is at p: "absent", "file", "emptydir" or "dir" (a directory with content).
KindAt(f, p) ==
    IF ~Exists(f, p) THEN "absent"
    ELSE IF IsFile(f, p) THEN "file"
    ELSE IF \E c \in Children(Resolve(f, p)) : f[c].k # "absent" THEN "dir"
    ELSE "emptydir"

\* op.stage: "none" | "returned" | "raised", or the external tool the call is
\* waiting for: "cmake" | "make" | "loader" | "drop_cache" | "query".
\* flags are the compile flags the call was given; compiles counts the calls
\* of compile() it has made; last is the configuration that had been applied
\* when it began, and applies tells that it has applied its own.
\* status is the exit status of the tool the call has run (-1: none yet).
\* The fields from `real` on are history of the call: the resolved argument,
\* for a file_size that directly follows a reset_dir of the same path what
\* that reset_dir found there ("none" otherwise), what was at the path and in
\* the tree when the call began, whether the call has changed the filesystem,
\* and the nodes the call has deleted.
NoOp ==
    [name |-> "none", stage |-> "none", path |-> Cwd, keep |-> FALSE,
     offset |-> None, limit |-> None,
     size |-> 0, fields |-> {}, by |-> 0, status |-> -1,
     flags |-> {}, compiles |-> 0, last |-> {}, applies |-> FALSE,
     real |-> Cwd, follows |-> "none", prekind |-> "absent", preents |-> NoEnts,
     changed |-> FALSE, deleted |-> {},
     tree |-> << >>, query |-> "", args |-> << >>, tools |-> << >>]

\* The record of a call with argument p that starts in the current state.
Call(name, p) ==
    [NoOp EXCEPT !.name = name, !.path = p, !.real = Resolve(fs, p),
                 !.prekind = KindAt(fs, p), !.preents = TreeEnts(fs, p)]

Outcome(raised) == IF raised THEN "raised" ELSE "returned"

\* A statistics artifact left behind by an earlier run.
StaleStats == File(NoEnts, BuildStatsFields \cup {"stale"}, 0)

OneEntry == [e \in EntryIds |-> IF e = 0 THEN 1 ELSE 0]

\* A filesystem as the harness may find it at start.  The directories of
\* common.py (lines 79-85) exist.  t: what is at output/tree; b: its
\* tree.blocks (-1 none, 0 empty, 1 holding entry 0); tl, dl: the two links;
\* s: a stale stats.json; dt: a tree outside the roots.
StartFs(t, b, tl, dl, s, dt) ==
    [n \in Nodes |->
        IF n \in {Cwd, OUTPUT_PATH, TMP_PATH, DATA_PATH} THEN Dir
        ELSE IF n = EntriesPath THEN File(NoEnts, {"entries"}, 0)
        ELSE IF n = TreePath
             THEN (IF t = "dir" THEN Dir ELSE IF t = "file" THEN File(OneEntry, {}, 0) ELSE Absent)
        ELSE IF n = TreeBlocks
             THEN (IF b = 0 THEN File(NoEnts, {}, 0) ELSE IF b = 1 THEN File(OneEntry, {}, 0) ELSE Absent)
        ELSE IF n = TreeLink THEN (IF tl THEN Link ELSE Absent)
        ELSE IF n = DataLink THEN (IF dl THEN Link ELSE Absent)
        ELSE IF n = StatsPath THEN (IF s THEN StaleStats ELSE Absent)
        ELSE IF n = DataTree THEN (IF dt THEN Dir ELSE Absent)
        ELSE IF n = DataTreeBlocks THEN (IF dt THEN File(OneEntry, {}, 0) ELSE Absent)
        ELSE Absent]

StartFilesystems ==
    { StartFs(c[1], c[2], c[3], c[4], c[5], c[6]) :
        c \in { d \in {"absent", "file", "dir"} \X {-1, 0, 1} \X BOOLEAN \X BOOLEAN
                      \X BOOLEAN \X BOOLEAN :
                  /\ d[1] # "dir" => (d[2] = -1 /\ ~d[3])
                  /\ ~(d[3] /\ d[4]) } }

\* Every path the filesystem operations are called with.
ArgPaths == Nodes \ {QueryStatsPath}

\* Tree locations build_tree is called with: inside the output root, through
\* a link and, to replace what is there, outside both roots.
TreeArgs(keep_existing) ==
    IF keep_existing THEN {TreePath, DataLink} ELSE {TreePath, DataLink, DataTree}

\* (offset, limit) pairs build_tree is called with.
BatchArgs == { <<None, None>>, <<None, 1>>, <<MaxEntries - 1, 1>> }

\* The filesystems the build runs start from: the tree location empty or
\* holding a tree, with or without the links and a stale statistics artifact,
\* and a tree outside the roots.
BuildFilesystems ==
    { f \in StartFilesystems :
        /\ f[TreePath].k # "file"
        /\ f[TreePath].k = "dir" => f[TreeBlocks] = File(OneEntry, {}, 0)
        /\ f[DataTree].k = "dir" }

Init ==
    /\ fs \in BuildFilesystems
    /\ run = "running"
    /\ op = NoOp
    /\ inv = 0
    /\ failed = 0
    /\ soft = 16384
    /\ hard = 1048576
    /\ script = "any"
    /\ pc = "main"
    /\ current_compile_flags = NoneFlags
    /\ binary = Unbuilt
    /\ applied = NoneFlags
    /\ suite = NoSuite
    /\ pure = NoPure

\* A script that goes on while the tool it started is still running.
ReadyNotWaiting == run = "running" /\ pc = "main"
\* The script is past its start-up and between two calls: check_call has
\* waited for the tool it started.
Ready == run = "running" /\ pc = "main" /\ op.stage \in {"none", "returned"}

\* a call of common.remove(p)
DoRemove(p) ==
    /\ Ready
    /\ \E r \in {Remove(fs, p)} :
           /\ fs' = r.fs
           /\ op' = [Call("remove", p) EXCEPT !.stage = Outcome(r.raised),
                         !.changed = (r.fs # fs), !.deleted = r.del]
           /\ run' = IF r.raised THEN "halted" ELSE run
    /\ UNCHANGED <<inv, failed, process>>

\* a call of common.reset_dir(p)
DoResetDir(p) ==
    /\ Ready
    /\ \E r \in {ResetDir(fs, p)} :
           /\ fs' = r.fs
           /\ op' = [Call("reset_dir", p) EXCEPT !.stage = Outcome(r.raised),
                         !.changed = (r.fs # fs), !.deleted = r.del]
           /\ run' = IF r.raised THEN "halted" ELSE run
    /\ UNCHANGED <<inv, failed, process>>

\* a call of common.file_size(p)
DoFileSize(p) ==
    /\ Ready
    /\ \E n \in {FileSize(fs, p)} :
           /\ op' = [Call("file_size", p) EXCEPT !.stage = Outcome(n < 0), !.size = n,
                         !.follows = IF op.name = "reset_dir" /\ op.stage = "returned"
                                        /\ op.path = p
                                     THEN op.prekind ELSE "none"]
           /\ run' = IF n < 0 THEN "halted" ELSE run
    /\ UNCHANGED <<fs, inv, failed, process>>

\* The tree at p would not outgrow the model's bound by one more batch.
WithinCount(f, p) == \A e \in EntryIds : TreeEnts(f, p)[e] < MaxCount

\* A call of build_tree (name "commands.build_tree" or "common.build_tree"),
\* up to and including the start of the loader process.
BuildTreeBegin(name, tree_path, keep_existing, offset, limit) ==
    /\ Ready
    /\ tree_path = DataLink => fs[DataLink].k = "link"
    /\ \E r \in { IF name = "commands.build_tree"
                   THEN CommandsBuildTreeSetup(fs, tree_path, keep_existing)
                   ELSE CommonBuildTreeSetup(fs, tree_path, keep_existing) } :
           /\ fs' = r.fs
           /\ op' = [Call(name, tree_path) EXCEPT
                         !.stage = IF r.raised THEN "raised" ELSE "loader",
                         !.keep = keep_existing, !.offset = offset, !.limit = limit,
                         !.changed = (r.fs # fs), !.deleted = r.del]
           /\ run' = IF r.raised THEN "halted" ELSE run
           /\ inv' = IF r.raised THEN inv ELSE inv + 1
    /\ UNCHANGED <<failed, soft, hard, script, pc, current_compile_flags, binary, applied,
                   pure>>

\* The loader process exits, and the call that started it (build_tree, run,
\* or build_tree within build_if_missing, which drops the result) runs to
\* its end.
BuildTreeLoaderExit(status, stats, partial) ==
    /\ run = "running"
    /\ op.stage = "loader"
    /\ status = 0 => LoaderCanWrite(fs, op.path)
    /\ \E f \in { LoaderEffect(fs, op.path, StatsPath, op.offset, op.limit,
                                 status, stats, partial, inv) } :
         \E r \in { IF op.name = "commands.build_tree"
                     THEN CommandsBuildTreeFinish(f, status)
                     ELSE IF op.name = "build_trees.run"
                     THEN BuildTreesRunFinish(f, StatsPath, status)
                     ELSE CommonBuildTreeFinish(f, status) } :
           /\ fs' = f
           /\ failed' = IF status # 0 THEN inv ELSE failed
           /\ op' = [op EXCEPT !.stage = Outcome(r.raised), !.status = status,
                               !.fields = IF op.name = "build_if_missing" THEN {}
                                          ELSE r.fields,
                               !.by = r.by]
           /\ run' = IF r.raised THEN "halted" ELSE run
           /\ suite' = [(IF suite.loop = "none" \/ r.raised THEN suite
                         ELSE TableRow(suite, r.by))
                           EXCEPT !.completed = IF status = 0 /\ op.name = "build_if_missing"
                                                THEN @ \cup {op.path} ELSE @]
    /\ UNCHANGED <<inv, soft, hard, script, pc, current_compile_flags, binary, applied,
                   pure>>

Next ==
    \/ \E p \in ArgPaths : DoRemove(p)
    \/ \E p \in ArgPaths : DoResetDir(p)
    \/ \E name \in {"commands.build_tree", "common.build_tree"}, k \in BOOLEAN,
          b \in BatchArgs :
            \E t \in TreeArgs(k) :
                /\ inv < MaxInv
                /\ WithinCount(fs, t)
                /\ BuildTreeBegin(name, t, k, b[1], b[2])
                /\ UNCHANGED suite
    \/ \E stats \in StatsArtifacts \cup {{"-"}} : BuildTreeLoaderExit(0, stats, FALSE)
    \/ \E partial \in BOOLEAN : BuildTreeLoaderExit(1, {"-"}, partial)

Spec == Init /\ [][Next]_vars

\* The filesystem helpers alone, from every start filesystem.
InitFs ==
    /\ fs \in { f \in StartFilesystems : f[StatsPath].k = "absent" }
    /\ run = "running"
    /\ op = NoOp
    /\ inv = 0
    /\ failed = 0
    /\ soft = 16384
    /\ hard = 1048576
    /\ script = "any"
    /\ pc = "main"
    /\ current_compile_flags = NoneFlags
    /\ binary = Unbuilt
    /\ applied = NoneFlags
    /\ suite = NoSuite
    /\ pure = NoPure

NextFs ==
    \/ \E p \in ArgPaths : DoRemove(p)
    \/ \E p \in ArgPaths : DoResetDir(p)
    \/ \E p \in ArgPaths : DoFileSize(p)

SpecFs == InitFs /\ [][NextFs]_vars

\* ------------------------------------------------------- the run of a script

Scripts == {"eval_tree_building", "build_tree_variants", "build_trees", "eval_query"}

CommonSoftLimit == 64000
CommandsSoftLimit == 16384
BuildTreesSoftLimit == 16384

\* Mutant of SetRlimit: the soft limit is left as it is.
SetRlimitNot(value, s, h) == [raised |-> FALSE, soft |-> s]

\* resource.setrlimit(RLIMIT_NOFILE, (value, limits[1])): ValueError when the
\* soft limit asked for exceeds the hard limit.
SetRlimit(value, s, h) ==
    IF value > h THEN [raised |-> TRUE, soft |-> s] ELSE [raised |-> FALSE, soft |-> value]

\* The step of a script that follows `import common`.
AfterImportCommon(sc) ==
    IF sc = "eval_tree_building" THEN "import_commands"
    ELSE IF sc = "build_tree_variants" THEN "main"
    ELSE "compile"

\* import common: the directories are made, the soft limit is set.
ImportCommon ==
    /\ run = "running"
    /\ pc = "import_common"
    /\ \E m \in { MakeDir(MakeDir(fs, OUTPUT_PATH).fs, TMP_PATH) },
          r \in { SetRlimit(CommonSoftLimit, soft, hard) } :
           /\ fs' = m.fs
           /\ soft' = r.soft
           /\ run' = IF m.raised \/ r.raised THEN "halted" ELSE run
           /\ pc' = IF m.raised \/ r.raised THEN pc ELSE AfterImportCommon(script)
    /\ UNCHANGED <<op, inv, failed, hard, script, current_compile_flags, binary, applied,
                   suite, pure>>

\* import commands (common is imported already): the soft limit is set.
ImportCommands ==
    /\ run = "running"
    /\ pc = "import_commands"
    /\ \E r \in { SetRlimit(CommandsSoftLimit, soft, hard) } :
           /\ soft' = r.soft
           /\ run' = IF r.raised THEN "halted" ELSE run
           /\ pc' = IF r.raised THEN pc ELSE "compile"
    /\ UNCHANGED <<fs, op, inv, failed, hard, script, current_compile_flags, binary, applied,
                   suite, pure>>

\* build_trees.py, __main__: the soft limit is set after compile().
MainSetrlimit ==
    /\ run = "running"
    /\ pc = "rlimit"
    /\ \E r \in { SetRlimit(BuildTreesSoftLimit, soft, hard) } :
           /\ soft' = r.soft
           /\ run' = IF r.raised THEN "halted" ELSE run
           /\ pc' = IF r.raised THEN pc ELSE "main"
    /\ UNCHANGED <<fs, op, inv, failed, hard, script, current_compile_flags, binary, applied,
                   suite, pure>>

\* The flags of the compile() call that opens __main__.
MainCompileFlags(sc) == IF sc = "eval_query" THEN DebugStatsFlags ELSE NoFlags

\* The defines cmake is run with: eval_query.py and build_tree_variants.py
\* use common.compile, the other scripts compile.compile.
DefinesFor(sc, flags) ==
    IF sc \in {"eval_query", "build_tree_variants"}
    THEN CommonCompileDefines(flags) ELSE CompileDefines(flags)

\* compile() at the start of __main__, up to the start of cmake.
MainCompile ==
    /\ run = "running"
    /\ pc = "compile"
    /\ op.stage = "none"
    /\ op' = [Call("compile", Cwd) EXCEPT !.stage = "cmake", !.compiles = 1,
                  !.flags = MainCompileFlags(script), !.last = applied]
    /\ inv' = inv + 1
    /\ UNCHANGED <<fs, run, failed, process>>

\* cmake exits; on success make is started.
CmakeExit(status) ==
    /\ run = "running"
    /\ op.stage = "cmake"
    /\ failed' = IF status # 0 THEN inv ELSE failed
    /\ IF CheckCall(status)
       THEN /\ op' = [op EXCEPT !.stage = "raised", !.status = status]
            /\ run' = "halted"
            /\ inv' = inv
       ELSE /\ op' = [op EXCEPT !.stage = "make"]
            /\ run' = run
            /\ inv' = inv + 1
    /\ UNCHANGED <<fs, process>>

\* make exits and compile() returns: to __main__, or into build_if_missing,
\* which records the flags and goes on with common.build_tree up to the
\* start of the loader.
MakeExit(status) ==
    /\ run = "running"
    /\ op.stage = "make"
    /\ failed' = IF status # 0 THEN inv ELSE failed
    /\ IF CheckCall(status)
       THEN /\ op' = [op EXCEPT !.stage = "raised", !.status = status]
            /\ run' = "halted"
            /\ UNCHANGED <<fs, inv, pc, current_compile_flags, binary, applied, suite>>
       ELSE /\ binary' = DefinesFor(script, op.flags)
            /\ applied' = op.flags
            /\ IF op.name = "compile"
               THEN /\ op' = [op EXCEPT !.stage = "returned", !.status = status,
                                        !.applies = TRUE]
                    /\ pc' = IF pc # "compile" THEN pc
                             ELSE IF script = "build_trees" THEN "rlimit" ELSE "main"
                    /\ suite' = IF pc = "main" THEN [suite EXCEPT !.step = @ + 1] ELSE suite
                    /\ UNCHANGED <<fs, run, inv, current_compile_flags>>
               ELSE \E r \in { CommonBuildTreeSetup(fs, op.path, FALSE) } :
                    /\ current_compile_flags' = op.flags
                    /\ fs' = r.fs
                    /\ op' = [op EXCEPT !.stage = IF r.raised THEN "raised" ELSE "loader",
                                        !.applies = TRUE,
                                        !.changed = (r.fs # fs), !.deleted = r.del]
                    /\ run' = IF r.raised THEN "halted" ELSE run
                    /\ inv' = IF r.raised THEN inv ELSE inv + 1
                    /\ pc' = pc
                    /\ suite' = suite
    /\ UNCHANGED <<soft, hard, script, pure>>

\* A check that only sees a tree that is a regular file.
AlreadyExistsAsFile(f, tree_path) == IsFile(f, tree_path)
\* build_if_missing, "if tree_path.exists():": the tree is there already.
AlreadyExists(f, tree_path) == Exists(f, tree_path)

\* build_tree_variants.py, build_if_missing: skipped when the tree exists;
\* otherwise compile() is called when the flags differ (up to the start of
\* cmake), or the call goes straight on with common.build_tree (up to the
\* start of the loader).
BuildIfMissingBegin(tree_path, compile_flags) ==
    /\ Ready
    /\ IF AlreadyExists(fs, tree_path)
       THEN /\ op' = [Call("build_if_missing", tree_path) EXCEPT
                          !.stage = "returned", !.flags = compile_flags,
                          !.limit = MaxEntries, !.last = applied]
            /\ UNCHANGED <<fs, run, inv, applied>>
       ELSE IF NeedsCompile(current_compile_flags, compile_flags)
       THEN /\ op' = [Call("build_if_missing", tree_path) EXCEPT
                          !.stage = "cmake", !.flags = compile_flags, !.compiles = 1,
                          !.limit = MaxEntries, !.last = applied]
            /\ inv' = inv + 1
            /\ UNCHANGED <<fs, run, applied>>
       ELSE \E r \in { CommonBuildTreeSetup(fs, tree_path, FALSE) } :
            /\ fs' = r.fs
            /\ op' = [Call("build_if_missing", tree_path) EXCEPT
                          !.stage = IF r.raised THEN "raised" ELSE "loader",
                          !.flags = compile_flags, !.limit = MaxEntries,
                          !.last = applied, !.applies = TRUE,
                          !.changed = (r.fs # fs), !.deleted = r.del]
            /\ run' = IF r.raised THEN "halted" ELSE run
            /\ inv' = IF r.raised THEN inv ELSE inv + 1
            /\ applied' = compile_flags
    /\ UNCHANGED <<failed, soft, hard, script, pc, current_compile_flags, binary, pure>>

\* build_trees.py, run(): up to and including the start of the loader.
BuildTreesRunBegin(tree_path) ==
    /\ Ready
    /\ \E r \in { BuildTreesRunSetup(fs, tree_path) } :
           /\ fs' = r.fs
           /\ op' = [Call("build_trees.run", tree_path) EXCEPT
                         !.stage = IF r.raised THEN "raised" ELSE "loader",
                         !.changed = (r.fs # fs), !.deleted = r.del]
           /\ run' = IF r.raised THEN "halted" ELSE run
           /\ inv' = IF r.raised THEN inv ELSE inv + 1
    /\ UNCHANGED <<failed, process>>

\* load_strings(...)(key): the label's number in geolife.strings.json.
geolife_label(key) ==
    CASE key = "bus" -> 1 [] key = "walk" -> 2 [] key = "bike" -> 3
      [] key = "boat" -> 4 [] key = "run" -> 5

\* get_geolife_queries: the bounding box of the entire dataset (its largest
\* time is 2**32 - 1 in the source, 2**31 - 1 here).
GeolifeAll == BoundingBox(<<18, -180, 0>>, <<400, 180, 2147483647>>)

\* get_geolife_queries, with lists cut down to two small queries and one
\* sequenced query of two parts.
GeolifeQueries ==
    GetQueries("GEOLIFE",
        << >>,
        << SimpleQuery(GeolifeAll, <<geolife_label("boat"), geolife_label("run")>>),
           SimpleQuery(WithTime(GeolifeAll, 1250805600, 1250892000), << >>) >>,
        << << SimpleQuery(BoundingBox(<<18, 75, 1180000000>>, <<50, 125, 1250000000>>),
                          <<geolife_label("bus"), geolife_label("walk")>>),
              SimpleQuery(GeolifeAll, <<geolife_label("bike")>>) >> >>)

\* __main__ of eval_query.py after its first compile(), cut down to one tree per
\* group: the trees of the default configuration, the trees with bloom
\* filters, the trees of another fanout, and the default configuration again.
EvalQueryMain ==
    << [kind |-> "handle_tree", tree |-> <<"output", "geolife-obo">>, flags |-> NoFlags],
       [kind |-> "compile", tree |-> << >>,
        flags |-> [BloomFlags EXCEPT !.given = {"bloom_filters", "debug_stats"},
                                     !.debug_stats = TRUE]],
       [kind |-> "handle_tree", tree |-> <<"output", "variants", "geolife-obo-bloom">>,
        flags |-> NoFlags],
       [kind |-> "compile", tree |-> << >>,
        flags |-> [FanoutFlags(32) EXCEPT
                      !.given = {"leaf_fanout", "internal_fanout", "debug_stats"},
                      !.debug_stats = TRUE]],
       [kind |-> "handle_tree",
        tree |-> <<"output", "variants", "geolife-quickload-fanout-32">>,
        flags |-> NoFlags],
       [kind |-> "compile", tree |-> << >>, flags |-> NoFlags] >>

\* The statistics the query tool can report.
QueryStatsValues ==
    { [duration |-> 10, total_io |-> 30, block_io |-> 10],
      [duration |-> 25, total_io |-> 10, block_io |-> 10] }

\* measure_set: run_query has returned stats for the query at the position
\* of su; after the last query of the category the category is measured.
MeasureSetStep(su, stats) ==
    LET queries == GeolifeQueries[SetNames[su.cat]]
        query_stats == Append(su.query_stats, stats)
    IN  IF su.qi < Len(queries)
        THEN [su EXCEPT !.qi = @ + 1, !.query_stats = query_stats]
        ELSE [su EXCEPT !.cat = @ + 1, !.qi = 1, !.query_stats = << >>,
                        !.measured = (SetNames[su.cat] :> MeasureSet(queries, query_stats))
                                     @@ @]

\* eval_query.py, run_query(): the old statistics file is removed and
\* drop_cache is started.
RunQueryBegin(tree, query) ==
    /\ Ready
    /\ \E r \in { Remove(fs, QueryStatsPath) } :
           /\ fs' = r.fs
           /\ op' = [Call("run_query", QueryStatsPath) EXCEPT
                         !.stage = IF r.raised THEN "raised" ELSE "drop_cache",
                         !.changed = (r.fs # fs), !.deleted = r.del,
                         !.tree = tree, !.query = query.name,
                         !.args = QueryArgs(tree, QueryStatsPath, query),
                         !.tools = IF r.raised THEN << >> ELSE <<DROP_CACHE>>]
           /\ run' = IF r.raised THEN "halted" ELSE run
           /\ inv' = IF r.raised THEN inv ELSE inv + 1
    /\ UNCHANGED <<failed, soft, hard, script, pc, current_compile_flags, binary, applied,
                   pure>>

\* A run_query that starts the query tool whatever drop_cache reported.
AfterDropCacheAlwaysQuery(status) == "query"
\* run_query after drop_cache has exited: check_call raises on a non-zero
\* status, otherwise the query tool is next.
AfterDropCache(status) == IF CheckCall(status) THEN "raised" ELSE "query"

\* drop_cache exits; on success the query tool is started.
DropCacheExit(status) ==
    /\ run = "running"
    /\ op.stage = "drop_cache"
    /\ failed' = IF status # 0 THEN inv ELSE failed
    /\ IF AfterDropCache(status) = "raised"
       THEN /\ op' = [op EXCEPT !.stage = "raised", !.status = status]
            /\ run' = "halted"
            /\ inv' = inv
       ELSE /\ op' = [op EXCEPT !.stage = "query", !.tools = Append(@, QUERY)]
            /\ run' = run
            /\ inv' = inv + 1
    /\ UNCHANGED <<fs, process>>

\* The query tool exits, and run_query runs to its end.
QueryExit(status, stats, values) ==
    /\ run = "running"
    /\ op.stage = "query"
    /\ \E f \in { QueryEffect(fs, QueryStatsPath, status, stats, inv) } :
         \E r \in { RunQueryFinish(f, status) } :
           /\ fs' = f
           /\ failed' = IF status # 0 THEN inv ELSE failed
           /\ op' = [op EXCEPT !.stage = Outcome(r.raised), !.status = status,
                               !.fields = r.fields, !.by = r.by]
           /\ run' = IF r.raised THEN "halted" ELSE run
           /\ suite' = IF r.raised THEN suite
                       ELSE [MeasureSetStep(suite, values) EXCEPT
                                !.returned = Append(@, <<PathName(op.tree), SetNames[suite.cat],
                                                         op.query, values>>)]
    /\ UNCHANGED <<inv, soft, hard, script, pc, current_compile_flags, binary, applied,
                   pure>>

\* measure_queries: the next query of the tree is run. A category without
\* queries is measured on the way.
MeasureQueriesNext ==
    /\ suite.step <= Len(EvalQueryMain)
    /\ EvalQueryMain[suite.step].kind = "handle_tree"
    /\ \E pos \in { SkipEmpty(GeolifeQueries, suite.cat, suite.measured) } :
           /\ pos.cat <= Len(SetNames)
           /\ \E tree \in { EvalQueryMain[suite.step].tree },
                 query \in { GeolifeQueries[SetNames[pos.cat]][suite.qi] } :
                  /\ RunQueryBegin(tree, query)
                  /\ suite' = [suite EXCEPT
                                  !.cat = pos.cat, !.measured = pos.measured,
                                  !.runs = Append(@, <<PathName(tree), SetNames[pos.cat],
                                                       query.name>>)]

\* handle_tree: measure_queries has returned, its result is entered under
\* the tree's name and tree_stats starts the stats tool.
TreeStatsBegin ==
    /\ Ready
    /\ suite.step <= Len(EvalQueryMain)
    /\ EvalQueryMain[suite.step].kind = "handle_tree"
    /\ \E pos \in { SkipEmpty(GeolifeQueries, suite.cat, suite.measured) } :
           /\ pos.cat > Len(SetNames)
           /\ \E tree \in { EvalQueryMain[suite.step].tree } :
                  /\ suite' = [suite EXCEPT
                                  !.cat = pos.cat, !.measured = pos.measured,
                                  !.result = (PathName(tree) :> pos.measured) @@ @]
                  /\ op' = [Call("tree_stats", Cwd) EXCEPT
                                !.stage = "tree_stats", !.tree = tree,
                                !.args = <<PathStr(STATS), "--tree", PathStr(tree)>>,
                                !.tools = <<STATS>>]
    /\ inv' = inv + 1
    /\ UNCHANGED <<fs, run, failed, soft, hard, script, pc, current_compile_flags, binary,
                   applied, pure>>

\* The stats tool exits: check_output raises on a non-zero status; otherwise
\* handle_tree enters the statistics under the tree's name and returns.
TreeStatsExit(status) ==
    /\ run = "running"
    /\ op.stage = "tree_stats"
    /\ failed' = IF status # 0 THEN inv ELSE failed
    /\ op' = [op EXCEPT !.stage = Outcome(CheckCall(status)), !.status = status]
    /\ run' = IF CheckCall(status) THEN "halted" ELSE run
    /\ suite' = IF CheckCall(status) THEN suite
                ELSE [suite EXCEPT !.stats = (PathName(op.tree) :> "tree_stats") @@ @,
                                   !.step = @ + 1, !.cat = 1, !.qi = 1,
                                   !.query_stats = << >>, !.measured = << >>]
    /\ UNCHANGED <<fs, inv, soft, hard, script, pc, current_compile_flags, binary, applied,
                   pure>>

\* __main__ of eval_query.py: a compile() between the groups of trees, up to
\* the start of cmake.
CompileStep ==
    /\ Ready
    /\ suite.step <= Len(EvalQueryMain)
    /\ EvalQueryMain[suite.step].kind = "compile"
    /\ op' = [Call("compile", Cwd) EXCEPT !.stage = "cmake", !.compiles = 1,
                  !.flags = EvalQueryMain[suite.step].flags, !.last = applied]
    /\ inv' = inv + 1
    /\ UNCHANGED <<fs, run, failed, process>>

\* A script that writes its result files after whatever statement it has
\* got to.
DumpResultsEarly ==
    /\ Ready
    /\ suite.step > 1
    /\ pc' = "done"
    /\ suite' = [suite EXCEPT !.written = {"queries.json", "tree_stats.json"}]
    /\ UNCHANGED <<fs, run, op, inv, failed, soft, hard, script, current_compile_flags,
                   binary, applied, pure>>

\* __main__ of eval_query.py: result and stats are written out.
DumpResults ==
    /\ Ready
    /\ suite.step > Len(EvalQueryMain)
    /\ pc' = "done"
    /\ suite' = [suite EXCEPT !.written = {"queries.json", "tree_stats.json"}]
    /\ UNCHANGED <<fs, run, op, inv, failed, soft, hard, script, current_compile_flags,
                   binary, applied, pure>>

RunFilesystems ==
    { StartFs(c[1][1], c[1][2], FALSE, FALSE, c[2], FALSE) :
        c \in { <<"absent", -1>>, <<"dir", 1>> } \X BOOLEAN }

\* (soft, hard) limits a script may be started under.
StartLimits == { <<1024, 1048576>>, <<1048576, 1048576>>, <<1024, 32768>> }

InitRun ==
    /\ fs \in RunFilesystems
    /\ run = "running"
    /\ op = NoOp
    /\ inv = 0
    /\ failed = 0
    /\ \E l \in StartLimits : soft = l[1] /\ hard = l[2]
    /\ script \in Scripts
    /\ pc = "import_common"
    /\ current_compile_flags = NoneFlags
    /\ binary = Unbuilt
    /\ applied = NoneFlags
    /\ suite = NoSuite
    /\ pure = NoPure

NextRun ==
    \/ ImportCommon
    \/ ImportCommands
    \/ MainCompile
    \/ MainSetrlimit
    \/ \E status \in {0, 1} : CmakeExit(status)
    \/ \E status \in {0, 1} : MakeExit(status)
    \/ /\ script = "eval_tree_building"
       /\ inv < MaxTools
       /\ WithinCount(fs, TreePath)
       /\ \E k \in BOOLEAN, b \in BatchArgs :
              BuildTreeBegin("commands.build_tree", TreePath, k, b[1], b[2])
       /\ UNCHANGED suite
    \/ /\ script = "build_tree_variants"
       /\ inv < MaxTools
       /\ \E t \in {TreePath, DataTree}, flags \in VariantFlags :
              BuildIfMissingBegin(t, flags) /\ UNCHANGED suite
    \/ /\ script = "build_trees"
       /\ inv < MaxTools
       /\ BuildTreesRunBegin(TreePath)
    \/ /\ script = "eval_query"
       /\ MeasureQueriesNext
    \/ /\ script = "eval_query"
       /\ TreeStatsBegin
    \/ /\ script = "eval_query"
       /\ CompileStep
    \/ /\ script = "eval_query"
       /\ DumpResults
    \/ \E status \in {0, 1} : TreeStatsExit(status)
    \/ \E stats \in StatsArtifacts \cup {{"-"}} : BuildTreeLoaderExit(0, stats, FALSE)
    \/ \E partial \in BOOLEAN : BuildTreeLoaderExit(1, {"-"}, partial)
    \/ \E status \in {0, 1} : DropCacheExit(status)
    \/ \E stats \in {QueryStatsFields, {"-"}}, values \in QueryStatsValues :
           QueryExit(0, stats, values)
    \/ \E values \in QueryStatsValues : QueryExit(1, {"-"}, values)

SpecRun == InitRun /\ [][NextRun]_vars


\* ------------------------------------------------- functions on their own

\* The bound on the number of queries of a category and of parts of a query.
MaxQueries == 2

\* The bound on the number of entries steps() is applied to.
MaxDataset == 25

\* The boxes the functions are applied to.
Boxes ==
    { BoundingBox(min, max) :
        min \in { <<0, 0, 0>>, <<-1, 2, 3>> }, max \in { <<10, 10, 10>>, <<4, 5, 6>> } }

RECURSIVE SeqsUpTo(_, _)
\* The sequences over S of length at most n.
SeqsUpTo(S, n) ==
    IF n = 0 THEN { << >> }
    ELSE SeqsUpTo(S, n - 1)
         \cup { Append(q, x) : q \in { r \in SeqsUpTo(S, n - 1) : Len(r) = n - 1 }, x \in S }

\* The arguments the functions are applied to.
PureInputs ==
    { [kind |-> "with_time", box |-> b, min_t |-> t[1], max_t |-> t[2]] :
        b \in Boxes, t \in { <<5, 20>>, <<0, 0>>, <<7, 3>> } }
    \cup { [kind |-> "run_query",
            query |-> Query("Q", [i \in 1..Len(bs) |-> SimpleQuery(bs[i], <<l>>)])] :
             bs \in SeqsUpTo(Boxes, MaxQueries), l \in {1, 7} }
    \cup { [kind |-> "steps", max |-> m] : m \in 1..MaxDataset }
    \cup { [kind |-> "get_queries", prefix |-> pre, large |-> n[1], small |-> n[2],
            sequenced |-> n[3]] :
             pre \in {"GEOLIFE", "OSM", "RANDOM-WALK"},
             n \in (0..MaxQueries) \X (0..MaxQueries) \X (0..MaxQueries) }

InitPure ==
    /\ fs = StartFs("absent", -1, FALSE, FALSE, FALSE, FALSE)
    /\ run = "running"
    /\ op = NoOp
    /\ inv = 0
    /\ failed = 0
    /\ soft = 1024
    /\ hard = 1048576
    /\ script = "eval_query"
    /\ pc = "main"
    /\ current_compile_flags = NoneFlags
    /\ binary = Unbuilt
    /\ applied = NoneFlags
    /\ suite = NoSuite
    /\ \E a \in PureInputs : pure = [NoPure EXCEPT !.arg = a]

\* The variables an application of a function leaves alone.
impure == <<fs, run, op, inv, failed, soft, hard, script, pc, current_compile_flags,
            binary, applied, suite>>

\* box.with_time(min_t, max_t): out is the result, self the receiver after
\* the call.
ApplyWithTime ==
    /\ pure.fn = "none"
    /\ pure.arg.kind = "with_time"
    /\ pure' = [pure EXCEPT !.fn = "with_time",
                   !.out = [result |-> WithTime(pure.arg.box, pure.arg.min_t, pure.arg.max_t),
                            self |-> pure.arg.box]]
    /\ UNCHANGED impure

\* run_query(tree, query), up to the argument list of the query tool.
ApplyQueryArgs ==
    /\ pure.fn = "none"
    /\ pure.arg.kind = "run_query"
    /\ pure' = [pure EXCEPT !.fn = "run_query",
                   !.out = QueryArgs(TreePath, QueryStatsPath, pure.arg.query)]
    /\ UNCHANGED impure

\* get_*_queries with lists of the given lengths, every query the whole box.
ApplyGetQueries ==
    /\ pure.fn = "none"
    /\ pure.arg.kind = "get_queries"
    /\ pure' = [pure EXCEPT !.fn = "get_queries",
                   !.out = GetQueries(pure.arg.prefix,
                               [i \in 1..pure.arg.large |-> SimpleQuery(GeolifeAll, <<i>>)],
                               [i \in 1..pure.arg.small |-> SimpleQuery(GeolifeAll, <<i>>)],
                               [i \in 1..pure.arg.sequenced |->
                                   <<SimpleQuery(GeolifeAll, <<i>>),
                                     SimpleQuery(GeolifeAll, << >>)>>])]
    /\ UNCHANGED impure

\* list(steps(max))
ApplySteps ==
    /\ pure.fn = "none"
    /\ pure.arg.kind = "steps"
    /\ pure' = [pure EXCEPT !.fn = "steps", !.out = Steps(10, pure.arg.max)]
    /\ UNCHANGED impure

NextPure ==
    \/ ApplySteps
    \/ ApplyWithTime
    \/ ApplyQueryArgs
    \/ ApplyGetQueries

SpecPure == InitPure /\ [][NextPure]_vars


\* ------------------------------------------------- build_tree_variants.py

\* __main__ of build_tree_variants.py, cut down to one tree per group: first
\* the trees that "require special compile options" (here the bloom filter
\* tree), then those that "restore the normal compile options".
VariantsMain ==
    << [tree |-> TreePath, flags |-> BloomFlags],
       [tree |-> DataTree, flags |-> NoFlags] >>

\* Every set of trees that exist when the script starts, with or without a
\* statistics artifact left over; the trees that exist have been built to
\* the end.
VariantsFilesystems ==
    { StartFs(c[1][1], c[1][2], FALSE, FALSE, c[2][1], c[2][2]) :
        c \in { <<"absent", -1>>, <<"dir", 1>> } \X (BOOLEAN \X BOOLEAN) }

InitVariants ==
    /\ fs \in VariantsFilesystems
    /\ run = "running"
    /\ op = NoOp
    /\ inv = 0
    /\ failed = 0
    /\ \E l \in StartLimits : soft = l[1] /\ hard = l[2]
    /\ script = "build_tree_variants"
    /\ pc = "import_common"
    /\ current_compile_flags = NoneFlags
    /\ binary = Unbuilt
    /\ applied = NoneFlags
    /\ suite = [NoSuite EXCEPT
                    !.completed = { t \in {TreePath, DataTree} : Exists(fs, t) }]
    /\ pure = NoPure

\* The next build_if_missing of __main__.
BuildIfMissingNext ==
    /\ suite.step <= Len(VariantsMain)
    /\ BuildIfMissingBegin(VariantsMain[suite.step].tree, VariantsMain[suite.step].flags)
    /\ suite' = [suite EXCEPT !.step = @ + 1]

\* __main__ has run its last statement.
VariantsDone ==
    /\ Ready
    /\ suite.step > Len(VariantsMain)
    /\ pc' = "done"
    /\ UNCHANGED <<fs, run, op, inv, failed, soft, hard, script, current_compile_flags,
                   binary, applied, suite, pure>>

\* The script is started again after it has ended or has been halted by an
\* exception: the files and the native build are as the run before left
\* them, the process is a new one.
Rerun ==
    /\ run = "halted" \/ pc = "done"
    /\ run' = "running"
    /\ op' = NoOp
    /\ inv' = 0
    /\ failed' = 0
    /\ \E l \in StartLimits : soft' = l[1] /\ hard' = l[2]
    /\ pc' = "import_common"
    /\ current_compile_flags' = NoneFlags
    /\ applied' = NoneFlags
    /\ suite' = [NoSuite EXCEPT !.completed = suite.completed]
    /\ UNCHANGED <<fs, script, binary, pure>>

NextVariants ==
    \/ Rerun
    \/ ImportCommon
    \/ BuildIfMissingNext
    \/ \E status \in {0, 1} : CmakeExit(status)
    \/ \E status \in {0, 1} : MakeExit(status)
    \/ \E stats \in StatsArtifacts \cup {{"-"}} : BuildTreeLoaderExit(0, stats, FALSE)
    \/ \E partial \in BOOLEAN : BuildTreeLoaderExit(1, {"-"}, partial)
    \/ VariantsDone

SpecVariants == InitVariants /\ [][NextVariants]_vars


\* ------------------------------------------------ eval_tree_building.py

\* A loop of the script after its start-up and compile(): the tree location
\* is empty or holds the tree of an earlier run.
InitEval ==
    /\ fs \in RunFilesystems
    /\ run = "running"
    /\ op = NoOp
    /\ inv = 0
    /\ failed = 0
    /\ script \in {"eval_tree_building", "eval_tree_building_beta0.9"}
    /\ soft = IF script = "eval_tree_building" THEN CommandsSoftLimit ELSE CommonSoftLimit
    /\ hard = 1048576
    /\ pc = "main"
    /\ current_compile_flags = NoneFlags
    /\ binary = IF script = "eval_tree_building" THEN CompileDefines(NoFlags)
                ELSE CommonCompileDefines(NoFlags)
    /\ applied = NoFlags
    /\ \E loop \in {"bulk", "obo"} : suite = [NoSuite EXCEPT !.loop = loop]
    /\ pure = NoPure

\* The next step of the loop, up to the start of the loader.
EvalStep ==
    /\ suite.loop # "none"
    /\ suite.step <= MaxEntries
    /\ \E size \in { Steps(MaxEntries, MaxEntries)[suite.step] } :
         \E c \in { LoopCall(script, suite.loop, size, suite.last_size) } :
           /\ BuildTreeBegin(c.name, TreePath, c.keep, c.offset, c.limit)
           /\ suite' = [suite EXCEPT
                           !.last_size = IF suite.loop = "bulk" THEN @ ELSE size,
                           !.batches = Append(@, <<c.offset, c.limit>>)]

\* The loop is over and the table is written.
EvalDone ==
    /\ Ready
    /\ suite.loop # "none"
    /\ suite.step > MaxEntries
    /\ pc' = "done"
    /\ UNCHANGED <<fs, run, op, inv, failed, soft, hard, script, current_compile_flags,
                   binary, applied, suite, pure>>

NextEval ==
    \/ EvalStep
    \/ \E stats \in StatsArtifacts \cup {{"-"}} : BuildTreeLoaderExit(0, stats, FALSE)
    \/ \E partial \in BOOLEAN : BuildTreeLoaderExit(1, {"-"}, partial)
    \/ EvalDone

SpecEval == InitEval /\ [][NextEval]_vars


\* ================================================================== claims

\* A location strictly below the scratch root or the output root.
InRoot(r) == \E root \in {TMP_PATH, OUTPUT_PATH} : IsPrefix(root, r) /\ r # root

Finished == op.stage \in {"returned", "raised"}

BuildNames == {"commands.build_tree", "common.build_tree"}

\* C1 (as stated): remove(p) of a path that is not under the scratch root or
\* the output root raises and leaves the filesystem unchanged, whether or not
\* p exists.
C1_RemoveOutsideRaises ==
    (op.name = "remove" /\ Finished /\ ~InRoot(op.real))
        => (op.stage = "raised" /\ ~op.changed)

\* C1 (amended): remove(p) of an existing path whose resolved location is not
\* under the scratch root or the output root raises; if such a path does not
\* exist the call returns without an error; the filesystem is unchanged in
\* both cases.
C1_RemoveExistingOutsideRaises ==
    (op.name = "remove" /\ Finished /\ ~InRoot(op.real))
        => /\ ~op.changed
           /\ op.deleted = {}
           /\ op.stage = (IF op.prekind = "absent" THEN "returned" ELSE "raised")

C1_Witness ==
    /\ op.name = "remove" /\ op.stage = "raised"
    /\ ~InRoot(op.real) /\ op.prekind = "dir" /\ op.path # op.real

\* C2: whatever remove, reset_dir and build_tree are called with, every node
\* that disappears from the filesystem in a step lies strictly below the
\* scratch root or the output root; the roots themselves and everything
\* outside them stay.
C2_DeletesOnlyUnderRoots ==
    [][\A n \in Nodes : (fs[n].k # "absent" /\ fs'[n].k = "absent") => InRoot(n)]_vars

C2_Witness ==
    /\ op.name \in BuildNames /\ op.stage = "loader"
    /\ TreeLink \in op.deleted /\ op.path = DataLink
    /\ fs[EntriesPath].k = "file"

\* C3: remove(path) of a path that does not exist raises no error and changes
\* nothing on the filesystem.
C3_RemoveMissingIsNoOp ==
    (op.name = "remove" /\ Finished /\ op.prekind = "absent")
        => (op.stage = "returned" /\ ~op.changed /\ op.deleted = {})

C3_Witness ==
    /\ op.name = "remove" /\ op.stage = "returned" /\ op.prekind = "absent"
    /\ ~InRoot(op.real) /\ op.path = DataTree

\* C4: when reset_dir(p) has returned, p is an existing directory without
\* content, and a file_size(p) that follows it returns 0, whatever was at p
\* before.
C4_ResetDirThenSizeIsZero ==
    /\ (op.name = "reset_dir" /\ op.stage = "returned")
          => (KindAt(fs, op.path) = "emptydir" /\ FileSize(fs, op.path) = 0)
    /\ (op.name = "file_size" /\ Finished /\ op.follows # "none")
          => (op.stage = "returned" /\ op.size = 0)

C4_Witness ==
    op.name = "file_size" /\ op.stage = "returned" /\ op.follows = "dir" /\ op.size = 0

\* ------------------------------------------------------------ build_tree

\* C6: when build_tree is called with keep_existing false, nothing exists at
\* tree_path any more by the time the loader is started.
C6_TreeRemovedBeforeLoader ==
    (op.name \in BuildNames /\ op.stage = "loader" /\ ~op.keep)
        => (~Exists(fs, op.path) /\ TreeEnts(fs, op.path) = NoEnts)

C6_Witness ==
    /\ op.name \in BuildNames /\ op.stage = "loader" /\ ~op.keep
    /\ op.prekind = "dir" /\ op.preents # NoEnts /\ TreeBlocks \in op.deleted

\* C7: with keep_existing true the harness starts the loader on the tree as it
\* was, and after a successful call the tree holds the entries it held before
\* together with the batch of this call.
C7_KeepExistingAccumulates ==
    (op.name \in BuildNames /\ op.keep)
        => /\ op.stage = "loader"
                => /\ TreeEnts(fs, op.path) = op.preents
                   /\ KindAt(fs, op.path) = op.prekind
                   /\ op.deleted \cap Subtree(op.real) = {}
           /\ op.stage = "returned"
                => TreeEnts(fs, op.path) = Insert(op.preents, BatchOf(op.offset, op.limit))

C7_Witness ==
    /\ op.name \in BuildNames /\ op.keep /\ op.stage = "returned"
    /\ op.preents = OneEntry
    /\ op.offset = MaxEntries - 1
    /\ \A e \in EntryIds : TreeEnts(fs, op.path)[e] = 1

\* The statistics file as the loader of the current call left it holds every
\* field of BuildStats.
ArtifactComplete ==
    IsFile(fs, StatsPath) /\ BuildStatsFields \subseteq fs[StatsPath].fields

\* C8 (as stated): build_tree returns exactly the six fields of BuildStats,
\* taken from the statistics file of this call; further fields of the file are
\* ignored, and a file that lacks one of the six makes the call fail.
C8_ReturnsExactlyBuildStats ==
    (op.name \in BuildNames /\ Finished /\ op.status = 0)
        => IF ArtifactComplete
           THEN op.stage = "returned" /\ op.fields = BuildStatsFields
                /\ op.by = fs[StatsPath].by /\ op.by = inv
           ELSE op.stage = "raised"

\* C8 (amended): commands.build_tree returns exactly the six fields of
\* BuildStats from the statistics file of this call, ignores further fields
\* and fails when one of the six is missing; common.build_tree returns the
\* content of the file as it is and fails only when there is no file.
C8_CommandsReturnsExactlyBuildStats ==
    (op.name \in BuildNames /\ Finished /\ op.status = 0)
        => IF op.name = "commands.build_tree"
           THEN IF ArtifactComplete
                THEN op.stage = "returned" /\ op.fields = BuildStatsFields
                     /\ op.by = fs[StatsPath].by /\ op.by = inv
                ELSE op.stage = "raised"
           ELSE IF IsFile(fs, StatsPath)
                THEN op.stage = "returned" /\ op.fields = fs[StatsPath].fields
                     /\ op.by = fs[StatsPath].by /\ op.by = inv
                ELSE op.stage = "raised"

C8_Witness ==
    /\ op.name = "commands.build_tree" /\ op.stage = "returned"
    /\ "tree_height" \in fs[StatsPath].fields
    /\ op.fields = BuildStatsFields

\* --------------------------------------------------------- the run of a script

\* C5: a call of build_if_missing that applies its configuration (the tree is
\* missing) runs compile() exactly when the configuration differs from the one
\* applied last, or none was applied yet; when it is the same, compile() is
\* not run again.  Once applied, the native tools are built with the defines
\* of that configuration.
C5_CompileOnlyWhenFlagsDiffer ==
    op.name = "build_if_missing"
        => /\ op.compiles = 1 => op.last # op.flags
           /\ op.applies => /\ op.last # op.flags => op.compiles = 1
                            /\ applied = op.flags
                            /\ binary = CommonCompileDefines(op.flags)

C5_Witness ==
    /\ op.name = "build_if_missing" /\ op.applies /\ op.stage = "loader"
    /\ op.last = op.flags /\ op.compiles = 0
    /\ op.flags = BloomFlags /\ binary["USE_BLOOM"] = "1"

\* C9: once an external tool (cmake, make, loader, drop_cache, query tool) has
\* exited with a non-zero status, the call that ran it has raised and returned
\* no statistics, the run has halted, and no tool has been invoked after the
\* one that failed.
C9_ToolFailureHaltsRun ==
    failed # 0
        => /\ run = "halted"
           /\ op.stage = "raised" /\ op.fields = {} /\ op.status # 0
           /\ inv = failed

C9_Witness ==
    /\ failed # 0 /\ op.name = "run_query" /\ op.status = 1
    /\ inv = 5 /\ run = "halted"

\* C10: whenever a loader is started, the start-up of the script is over and
\* the soft limit on open files is one that the start-up has set, at least
\* ten thousand; once the start-up is over no step changes the limit.
C10_LimitRaisedBeforeLoader ==
    [][/\ op'.stage = "loader"
            => /\ pc' = "main"
               /\ soft' >= 10000
               /\ soft' \in {CommonSoftLimit, CommandsSoftLimit, BuildTreesSoftLimit}
       /\ pc = "main" => soft' = soft]_vars

C10_Witness ==
    /\ op.stage = "loader" /\ script = "build_trees" /\ inv = 3
    /\ soft = BuildTreesSoftLimit /\ hard > soft

\* The query run_query was called with: the one at the position of
\* measure_queries.
CurrentQuery == GeolifeQueries[SetNames[suite.cat]][suite.qi]

\* The arguments of the query tool after the tree and the statistics file.
PartArguments == SubSeq(op.args, 6, Len(op.args))

\* C11: whenever the query tool runs, its arguments hold, after the tree and
\* the statistics file, exactly one (-r region, -l labels) pair per part of
\* the query, the i-th pair built from the i-th part, in the order of the
\* parts.
C11_OnePairPerPartInOrder ==
    op.stage = "query"
        => /\ op.query = CurrentQuery.name
           /\ Len(PartArguments) = 4 * Len(CurrentQuery.queries)
           /\ \A i \in 1..Len(CurrentQuery.queries) :
                  /\ PartArguments[4 * i - 3] = "-r"
                  /\ PartArguments[4 * i - 2] = FormatMbb(CurrentQuery.queries[i].mbb)
                  /\ PartArguments[4 * i - 1] = "-l"
                  /\ PartArguments[4 * i] = FormatLabels(CurrentQuery.queries[i].labels)

C11_Witness ==
    /\ op.stage = "query" /\ op.query = "GEOLIFE-SEQUENCED-0"
    /\ Len(CurrentQuery.queries) = 2
    /\ op.args = <<"build/query", "--tree", "output/variants/geolife-obo-bloom",
                   "--stats", "tmp/query-stats.json",
                   "-r", "18, 50, 75, 125, 1180000000, 1250000000", "-l", "1,2",
                   "-r", "18, 400, -180, 180, 0, 2147483647", "-l", "3">>

\* C12: for a query of one part with box B and the one label L, the arguments
\* of the query tool end with exactly one pair: -r with the region
\* "min-x, max-x, min-y, max-y, min-t, max-t" of B, and -l with L.
C12_OnePartRegionOrder ==
    (pure.fn = "run_query" /\ Len(pure.arg.query.queries) = 1)
        => LET B == pure.arg.query.queries[1].mbb
               L == pure.arg.query.queries[1].labels[1]
           IN  SubSeq(pure.out, 6, Len(pure.out)) =
                   <<"-r",
                     ToString(B.min[1]) \o ", " \o ToString(B.max[1]) \o ", " \o
                     ToString(B.min[2]) \o ", " \o ToString(B.max[2]) \o ", " \o
                     ToString(B.min[3]) \o ", " \o ToString(B.max[3]),
                     "-l", ToString(L)>>

C12_Witness ==
    /\ pure.fn = "run_query"
    /\ pure.arg.query.queries = <<SimpleQuery(BoundingBox(<<-1, 2, 3>>, <<10, 10, 10>>), <<7>>)>>
    /\ pure.out = <<"build/query", "--tree", "output/tree", "--stats", "tmp/query-stats.json",
                    "-r", "-1, 10, 2, 10, 3, 10", "-l", "7">>

\* The tools a call has started so far.
ToolsOf(o) == { o.tools[i] : i \in 1..Len(o.tools) }

\* C13: a step that starts the query tool is the successful exit of the
\* drop_cache that the same call of run_query started, with no other tool of
\* that call before or between; and when drop_cache fails the call starts
\* nothing more and the run halts.
C13_CacheDroppedBeforeQuery ==
    [][/\ (QUERY \in ToolsOf(op') /\ QUERY \notin ToolsOf(op))
            => /\ op.name = "run_query" /\ op.stage = "drop_cache"
               /\ op.tools = <<DROP_CACHE>>
               /\ op'.tools = <<DROP_CACHE, QUERY>>
               /\ op'.name = "run_query" /\ op'.query = op.query /\ op'.tree = op.tree
               /\ failed' = failed
               /\ inv' = inv + 1
       /\ (op.stage = "drop_cache" /\ failed' # failed)
            => /\ op'.tools = op.tools
               /\ op'.stage = "raised"
               /\ inv' = inv
               /\ run' = "halted"]_vars

C13_Witness ==
    /\ op.name = "run_query" /\ op.stage = "query"
    /\ op.tools = <<DROP_CACHE, QUERY>>
    /\ failed = 0 /\ inv = 4

\* C14: box.with_time(min_t, max_t) returns a box with the x and y extent of
\* box and the time interval min_t, max_t, and leaves box as it was.
C14_WithTimeReplacesTime ==
    pure.fn = "with_time"
        => /\ pure.out.result.min[1] = pure.arg.box.min[1]
           /\ pure.out.result.min[2] = pure.arg.box.min[2]
           /\ pure.out.result.max[1] = pure.arg.box.max[1]
           /\ pure.out.result.max[2] = pure.arg.box.max[2]
           /\ pure.out.result.min[3] = pure.arg.min_t
           /\ pure.out.result.max[3] = pure.arg.max_t
           /\ Len(pure.out.result.min) = 3 /\ Len(pure.out.result.max) = 3
           /\ pure.out.self = pure.arg.box

C14_Witness ==
    /\ pure.fn = "with_time"
    /\ pure.arg.box = [min |-> <<0, 0, 0>>, max |-> <<10, 10, 10>>]
    /\ pure.arg.min_t = 5 /\ pure.arg.max_t = 20
    /\ pure.out.result = [min |-> <<0, 0, 5>>, max |-> <<10, 10, 20>>]
    /\ pure.out.self = [min |-> <<0, 0, 0>>, max |-> <<10, 10, 10>>]

\* The statistics run_query returned for the queries of a category of a tree,
\* in the order of the runs.
ReturnedFor(tree_name, set_name) ==
    LET OfSet(e) == e[1] = tree_name /\ e[2] = set_name
    IN  SelectSeq(suite.returned, OfSet)

\* The values of a metric in a sequence of returned statistics.
MetricOf(entries, key) == [i \in 1..Len(entries) |-> entries[i][4][key]]

\* avg is the arithmetic mean of the values of the metric that the runs of
\* the category's queries on the tree returned.
IsMeanOfReturned(avg, tree_name, set_name, key) ==
    LET values == MetricOf(ReturnedFor(tree_name, set_name), key)
    IN  /\ Len(values) = Len(GeolifeQueries[set_name])
        /\ avg.den > 0
        /\ avg.num * Len(values) = avg.den * Sum(values)

\* C15: for every tree and every category with queries, the mean that
\* measure_queries reports for duration and for total_io is the arithmetic
\* mean of that metric over all queries of the category: the sum of the
\* values the queries' runs on that tree returned, divided by their number.
C15_MeanIsArithmeticMean ==
    /\ \A t \in DOMAIN suite.result : \A c \in DOMAIN suite.result[t] :
           \A key \in {"duration", "total_io"} :
               GeolifeQueries[c] # << >>
                   => IsMeanOfReturned(suite.result[t][c][key].avg, t, c, key)
    /\ (suite.step <= Len(EvalQueryMain) /\ EvalQueryMain[suite.step].kind = "handle_tree")
           => \A c \in DOMAIN suite.measured : \A key \in {"duration", "total_io"} :
                  GeolifeQueries[c] # << >>
                      => IsMeanOfReturned(suite.measured[c][key].avg,
                                          PathName(EvalQueryMain[suite.step].tree), c, key)

C15_Witness ==
    /\ "geolife-obo" \in DOMAIN suite.result
    /\ MetricOf(ReturnedFor("geolife-obo", "small"), "total_io") = <<10, 30>>
    /\ suite.result["geolife-obo"]["small"]["total_io"].avg = [num |-> 20, den |-> 1]
    /\ suite.result["geolife-obo"]["small"]["duration"].avg = [num |-> 35, den |-> 2]

\* The trees __main__ handles.
MainTrees ==
    { EvalQueryMain[i].tree :
        i \in { j \in 1..Len(EvalQueryMain) : EvalQueryMain[j].kind = "handle_tree" } }

\* The combinations of a tree's name, a category and a query's name there
\* are to run.
Combination(tree, c, i) ==
    <<PathName(tree), SetNames[c], GeolifeQueries[SetNames[c]][i].name>>

AllCombinations ==
    UNION { UNION { { Combination(t, c, i) : i \in 1..Len(GeolifeQueries[SetNames[c]]) } :
                    c \in 1..Len(SetNames) } : t \in MainTrees }

\* C16: run_query is never called twice for the same tree, category and
\* query, and at the end of the script it has been called for every such
\* combination; the result has one entry per tree, under it one per
\* category, under it one per query of the category, and that entry is the
\* value that this tree's run of this query returned.
C16_OnceEachAndNoOverwrite ==
    /\ \A i, j \in 1..Len(suite.runs) : i # j => suite.runs[i] # suite.runs[j]
    /\ \A i \in 1..Len(suite.runs) : suite.runs[i] \in AllCombinations
    /\ \A t \in DOMAIN suite.result :
           /\ DOMAIN suite.result[t] = { SetNames[c] : c \in 1..Len(SetNames) }
           /\ \A c \in DOMAIN suite.result[t] : \A key \in {"duration", "total_io"} :
                  /\ Cardinality(DOMAIN suite.result[t][c][key].values)
                         = Len(GeolifeQueries[c])
                  /\ \A i \in 1..Len(GeolifeQueries[c]) :
                         \E k \in 1..Len(suite.returned) :
                             /\ suite.returned[k][1] = t
                             /\ suite.returned[k][2] = c
                             /\ suite.returned[k][3] = GeolifeQueries[c][i].name
                             /\ suite.result[t][c][key].values[GeolifeQueries[c][i].name]
                                    = suite.returned[k][4][key]
    /\ pc = "done"
           => /\ { suite.runs[i] : i \in 1..Len(suite.runs) } = AllCombinations
              /\ Len(suite.runs) = Cardinality(AllCombinations)
              /\ Len(suite.returned) = Len(suite.runs)
              /\ Cardinality(DOMAIN suite.result) = Cardinality(MainTrees)
              /\ DOMAIN suite.result = { PathName(t) : t \in MainTrees }

C16_Witness ==
    /\ pc = "done"
    /\ Len(suite.runs) = 9
    /\ DOMAIN suite.result = {"geolife-obo", "geolife-obo-bloom", "geolife-quickload-fanout-32"}
    /\ suite.result["geolife-obo"]["small"]["total_io"].values["GEOLIFE-SMALL-0"] = 10
    /\ suite.result["geolife-obo-bloom"]["small"]["total_io"].values["GEOLIFE-SMALL-0"] = 30

\* The stages of a call in which an external tool is running.
ToolStages == {"cmake", "make", "loader", "drop_cache", "query", "tree_stats"}

\* The tools a call starts one after the other: the second when the first
\* has exited with status 0.
ToolSuccessor == { <<"cmake", "make">>, <<"make", "loader">>, <<"drop_cache", "query">> }

\* C18: an external tool is started only when no tool is running, or in the
\* very step in which the tool running has exited successfully and its call
\* goes on to its next tool; so at most one tool is in flight, every build,
\* cache drop and query has completed before the next starts, and no query
\* runs during a build.
C18_OneToolAtATime ==
    [][inv' > inv
          => /\ inv' = inv + 1
             /\ op'.stage \in ToolStages
             /\ \/ op.stage \notin ToolStages
                \/ /\ <<op.stage, op'.stage>> \in ToolSuccessor
                   /\ op'.name = op.name /\ op'.path = op.path /\ op'.tree = op.tree
                   /\ failed' = failed]_vars

C18_Witness ==
    /\ script = "build_tree_variants" /\ op.name = "build_if_missing"
    /\ op.stage = "loader" /\ op.compiles = 1 /\ inv = 3 /\ failed = 0

\* The names of the queries of a query set, category by category.
SuiteNames(query_set) ==
    [c \in 1..Len(SetNames) |->
        [i \in 1..Len(query_set[SetNames[c]]) |-> query_set[SetNames[c]][i].name]]

\* C19: in a query set built by get_geolife_queries, get_osm_queries or
\* get_random_walk_queries no two queries have the same name, whether they
\* are in the same category or in two categories.
C19_QueryNamesUnique ==
    pure.fn = "get_queries"
        => LET names == SuiteNames(pure.out)
           IN  \A c, d \in 1..Len(SetNames) :
                   \A i \in 1..Len(names[c]), j \in 1..Len(names[d]) :
                       names[c][i] = names[d][j] => (c = d /\ i = j)

C19_Witness ==
    /\ pure.fn = "get_queries"
    /\ pure.arg.prefix = "RANDOM-WALK"
    /\ Len(pure.out.large) = 2 /\ Len(pure.out.small) = 2 /\ Len(pure.out.sequenced) = 2
    /\ pure.out.small[2].name = "RANDOM-WALK-SMALL-1"
    /\ pure.out.sequenced[1].name = "RANDOM-WALK-SEQUENCED-0"
    /\ Len(pure.out.sequenced[1].queries) = 2

\* C20: when build_tree_variants.py has finished and has compiled during the
\* run, the configuration compiled last is the default one; in particular a
\* special configuration (bloom filters) compiled during the run has been
\* replaced by the default one at the end.
C20_DefaultRestoredAtEnd ==
    (script = "build_tree_variants" /\ pc = "done" /\ binary # Unbuilt)
        => /\ binary = CommonCompileDefines(NoFlags)
           /\ applied = NoFlags

\* C22: for every positive max, steps(max) yields exactly 10 values, each
\* positive and larger than the one before, and the last one is max.
C22_TenStepsUpToMax ==
    pure.fn = "steps"
        => /\ Len(pure.out) = 10
           /\ \A i \in 1..Len(pure.out) : pure.out[i] > 0
           /\ \A i \in 1..(Len(pure.out) - 1) : pure.out[i] < pure.out[i + 1]
           /\ pure.out[Len(pure.out)] = pure.arg.max

\* The entries [0, n), each once.
FirstEntries(n) == [e \in EntryIds |-> IF e < n THEN 1 ELSE 0]

\* C21: in the bulk loop every build overwrites the tree of the step before:
\* after each step the tree holds exactly the entries of that step, each
\* once, so at the end only the largest tree is on disk; and the table has
\* one row for every step, in the order of the steps.
C21_BulkOverwritesAndRowPerStep ==
    (suite.loop = "bulk" /\ Ready /\ run = "running")
        => /\ Len(suite.rows) = suite.step - 1
           /\ \A i \in 1..Len(suite.rows) :
                suite.rows[i][1] = Steps(MaxEntries, MaxEntries)[i]
           /\ suite.step > 1 =>
                TreeEnts(fs, TreePath)
                    = FirstEntries(Steps(MaxEntries, MaxEntries)[suite.step - 1])
           /\ pc = "done" =>
                /\ Len(suite.rows) = MaxEntries
                /\ TreeEnts(fs, TreePath) = FirstEntries(MaxEntries)

\* The bulk loop has finished after one build per step.
C21_Witness ==
    /\ suite.loop = "bulk"
    /\ pc = "done"
    /\ inv = MaxEntries
    /\ Len(suite.rows) = MaxEntries
    /\ TreeEnts(fs, TreePath) = FirstEntries(MaxEntries)

\* C23: in the one-by-one loop the batches are contiguous and disjoint: the
\* first has offset 0, each later one starts where the one before ended, and
\* a batch ends at the size of its row; the value of a row is the sum of the
\* statistics that the calls up to and including its batch returned, the
\* statistics of the i-th call being those written by the i-th invocation.
C23_BatchesContiguousRowsCumulative ==
    suite.loop = "obo"
        => /\ Len(suite.batches) >= 1 => suite.batches[1][1] = 0
           /\ \A i \in 2..Len(suite.batches) :
                suite.batches[i][1] = suite.batches[i - 1][1] + suite.batches[i - 1][2]
           /\ \A i \in 1..Len(suite.batches) : suite.batches[i][2] > 0
           /\ Len(suite.rows) <= Len(suite.batches)
           /\ Len(suite.returned) = Len(suite.rows)
           /\ \A i \in 1..Len(suite.rows) :
                /\ suite.batches[i][1] + suite.batches[i][2] = suite.rows[i][1]
                /\ suite.returned[i] = i
                /\ suite.rows[i][2] = Sum(SubSeq(suite.returned, 1, i))

\* The one-by-one loop has finished: more than one batch, and the last row
\* holds the sum of all their statistics.
C23_Witness ==
    /\ suite.loop = "obo"
    /\ pc = "done"
    /\ Len(suite.batches) = MaxEntries
    /\ Len(suite.rows) = MaxEntries
    /\ suite.rows[MaxEntries][1] = MaxEntries
    /\ suite.rows[MaxEntries][2] = Sum(suite.returned)
    /\ suite.rows[MaxEntries][2] > suite.returned[MaxEntries]

\* C26: the one-by-one loop starts from an empty tree: a tree left at the
\* tree path by an earlier run is removed before the first batch, so when the
\* loop has finished the tree holds each entry of [0, final size) exactly
\* once.
C26_OboStartsFromEmptyTree ==
    (suite.loop = "obo" /\ pc = "done")
        => TreeEnts(fs, TreePath) = FirstEntries(MaxEntries)

\* C24: a call of build_if_missing for a tree path that exists does nothing:
\* it returns without starting cmake, make or the loader, the filesystem
\* (the tree included) stays as it is, and so do the binary and the recorded
\* current compile flags.
C24_ExistingTreeIsSkipped ==
    [][ (Ready /\ op'.name = "build_if_missing" /\ suite'.step = suite.step + 1
            /\ op'.prekind # "absent")
          => /\ op'.stage = "returned"
             /\ fs' = fs
             /\ inv' = inv
             /\ run' = run
             /\ binary' = binary
             /\ applied' = applied
             /\ current_compile_flags' = current_compile_flags ]_vars

\* A call for an existing tree has returned although the flags it asked for
\* are not the recorded ones.
C24_Witness ==
    /\ op.name = "build_if_missing"
    /\ op.stage = "returned"
    /\ op.prekind = "dir"
    /\ op.flags # current_compile_flags
    /\ TreeEnts(fs, op.path) = op.preents

\* C25: in build_tree_variants.py, whenever the loader runs, the configuration
\* that compile() applied last, and with which the native tools are built, is
\* the one requested for the tree being built, whatever calls came before and
\* whichever of them were skipped.
C25_LoaderRunsUnderRequestedFlags ==
    (script = "build_tree_variants" /\ op.stage = "loader")
        => /\ op.name = "build_if_missing"
           /\ current_compile_flags = op.flags
           /\ applied = op.flags
           /\ binary = CommonCompileDefines(op.flags)

\* The loader runs for a tree of the default configuration after the bloom
\* filter configuration had been applied and compile() was run again.
C25_Witness ==
    /\ script = "build_tree_variants"
    /\ op.name = "build_if_missing" /\ op.stage = "loader"
    /\ op.flags = NoFlags /\ op.last = BloomFlags /\ op.compiles = 1
    /\ binary["USE_BLOOM"] = "0"

\* The statistics file of the call in progress.
StatsPathOf(o) == IF o.name = "run_query" THEN QueryStatsPath ELSE StatsPath

\* The call in progress is one of build_tree (commands or common, the latter
\* also inside build_if_missing) or run_query, and has run its tool to the
\* end.
ToolCallEnded ==
    /\ op.stage \in {"returned", "raised"}
    /\ \/ op.name \in {"commands.build_tree", "common.build_tree", "run_query"}
       \/ op.name = "build_if_missing" /\ op.applies
    /\ op.status = 0

\* C27: the statistics that build_tree and run_query return are the ones the
\* tool invocation of that same call wrote (the statistics file read is the
\* one written by the last invocation, that of the call); and when the tool
\* has exited with 0 without writing them, the call has raised, whatever
\* statistics file an earlier call or run had left.
C27_StatisticsOfSameCall ==
    ToolCallEnded
        => /\ op.stage = "returned"
                => /\ op.by = inv
                   /\ IsFile(fs, StatsPathOf(op))
                   /\ fs[Resolve(fs, StatsPathOf(op))].by = inv
           /\ ~(IsFile(fs, StatsPathOf(op)) /\ fs[Resolve(fs, StatsPathOf(op))].by = inv)
                => op.stage = "raised"

\* A build whose setup removed the statistics file of an earlier call has
\* returned the statistics of its own loader invocation.
C27_Witness ==
    /\ ToolCallEnded
    /\ op.stage = "returned"
    /\ StatsPath \in op.deleted
    /\ inv >= 2
    /\ op.by = inv

RECURSIVE SumOfValues(_)
\* The sum of the entries of a "values" dictionary.
SumOfValues(values) ==
    IF DOMAIN values = {} THEN 0
    ELSE LET k == CHOOSE x \in DOMAIN values : TRUE
         IN  values[k] + SumOfValues([x \in DOMAIN values \ {k} |-> values[x]])

\* What get_stats reported for a category: "values" has one entry for each
\* of its queries, under the query's name, and "avg" is their sum divided by
\* their number, or 0 when there are none.
AvgOfValues(stats, set_name) ==
    LET queries == GeolifeQueries[set_name]
        n == Cardinality(DOMAIN stats.values)
    IN  /\ DOMAIN stats.values = { queries[i].name : i \in 1..Len(queries) }
        /\ n = Len(queries)
        /\ stats.avg.den > 0
        /\ IF n = 0 THEN stats.avg.num = 0
           ELSE stats.avg.num * n = stats.avg.den * SumOfValues(stats.values)

\* C28: for every tree measured and every category and metric, "avg" is the
\* sum of the entries under "values" divided by their number, "values" has
\* one entry per query of the category, and a category without queries has
\* been measured without an error, with no values and an "avg" of 0.
C28_AvgIsMeanOfValues ==
    /\ \A t \in DOMAIN suite.result : \A c \in DOMAIN suite.result[t] :
           \A key \in {"duration", "total_io"} :
               AvgOfValues(suite.result[t][c][key], c)
    /\ \A c \in DOMAIN suite.measured : \A key \in {"duration", "total_io"} :
           AvgOfValues(suite.measured[c][key], c)
    /\ \A t \in DOMAIN suite.result :
           DOMAIN suite.result[t] = { SetNames[i] : i \in 1..Len(SetNames) }

\* A tree has been measured: its category without queries has no values
\* and an average of 0, its category of two queries two values and their
\* mean.
C28_Witness ==
    /\ run = "running"
    /\ "geolife-obo" \in DOMAIN suite.result
    /\ GeolifeQueries["large"] = << >>
    /\ DOMAIN suite.result["geolife-obo"]["large"]["duration"].values = {}
    /\ suite.result["geolife-obo"]["large"]["duration"].avg = [num |-> 0, den |-> 1]
    /\ Cardinality(DOMAIN suite.result["geolife-obo"]["small"]["duration"].values) = 2
    /\ SumOfValues(suite.result["geolife-obo"]["small"]["duration"].values) = 35
    /\ suite.result["geolife-obo"]["small"]["duration"].avg = [num |-> 35, den |-> 2]

\* C29: eval_query.py has written results/queries.json and
\* results/tree_stats.json only when every query has been run with success
\* on every tree, every tree's statistics have been read and the final
\* compile() has built the default configuration; once a tool invocation has
\* failed, neither file has been opened for writing.
C29_ResultsOnlyAfterSuccess ==
    /\ suite.written # {}
          => /\ script = "eval_query"
             /\ failed = 0 /\ run = "running"
             /\ \A c \in AllCombinations :
                    \E k \in 1..Len(suite.returned) :
                        <<suite.returned[k][1], suite.returned[k][2], suite.returned[k][3]>> = c
             /\ DOMAIN suite.result = { PathName(t) : t \in MainTrees }
             /\ DOMAIN suite.stats = { PathName(t) : t \in MainTrees }
             /\ binary = CommonCompileDefines(NoFlags)
    /\ (failed # 0 \/ run = "halted") => suite.written = {}

\* Both files have been written at the end of a run that compiled the bloom
\* filter and fan-out configurations on its way.
C29_Witness ==
    /\ script = "eval_query"
    /\ pc = "done"
    /\ suite.written = {"queries.json", "tree_stats.json"}
    /\ "geolife-obo-bloom" \in DOMAIN suite.result
    /\ binary["USE_BLOOM"] = "0"

\* C30: build_if_missing skips only trees whose build was completed: when a
\* call has found the tree path existing and has returned without building,
\* a loader invocation for that path has exited with success before (in this
\* run or in an earlier one), also when a run before was halted by a loader
\* that failed after it had begun to write the tree.
C30_SkipsOnlyCompletedTrees ==
    (op.name = "build_if_missing" /\ op.stage = "returned" /\ op.prekind # "absent")
        => op.path \in suite.completed

====
